---------------------------- MODULE Spec2Model ----------------------------
(***************************************************************************)
(* A state-machine model of grafeo-web: the memoized WASM bootstrap        *)
(* (wasm-init.ts), the query classifier (query-utils.ts), the debounced    *)
(* IndexedDB PersistenceManager (persistence.ts), the GrafeoDB             *)
(* orchestrator (index.ts), the WorkerProxy (worker-proxy.ts) and the      *)
(* worker message handler (worker.ts).                                     *)
(*                                                                         *)
(* JavaScript runs every synchronous stretch of code to completion, so     *)
(* each action below is one such stretch: a public call up to its first    *)
(* real suspension, a timer callback, a storage completion together with   *)
(* the continuation awaiting it, or a message handler.                     *)
(***************************************************************************)
EXTENDS Integers, Sequences, FiniteSets, TLC

(***************************************************************************)
(* Bounds of the model.                                                    *)
(***************************************************************************)
\* Largest node count the engine state may reach.
MaxNodes == 2
\* Debounce interval in clock ticks (persistInterval, default 1000 ms).
PersistInterval == 2
\* Largest number of IndexedDB requests in flight at once.
MaxInFlight == 2
\* Number of create() calls made on the persistence key, one after another.
MaxOpens == 2
\* Number of concurrent callers of ensureWasmInitialized().
NumCallers == 3
\* Largest request id a WorkerProxy allocates.
MaxRequests == 3
\* Largest number of responses the mock worker posts, duplicates included.
MaxReplies == 4
\* Largest number of create() calls one component's useGrafeo() makes.
MaxInstances == 2
\* Largest number of subscribers the db store of createGrafeo() has at once.
MaxSubscribers == 2

(***************************************************************************)
(* Query text.  A query is a sequence of one-character strings so that the *)
(* classifier's regular expression can be evaluated character by           *)
(* character; the state names a query by its name in QueryText.            *)
(***************************************************************************)
QueryText ==
    [ Q_INSERT |-> <<"I","N","S","E","R","T"," ","(",":","P",")">>,
      Q_insert_ws |-> <<" ","\n","i","n","s","e","r","t"," ","(",":","P",")">>,
      Q_MATCH |-> <<"M","A","T","C","H"," ","(","n",")">>,
      Q_MATCH_INSERT |-> <<"M","A","T","C","H"," ","(","a",")","\n",
                           "I","N","S","E","R","T"," ","(","a",")">>,
      Q_INSERTED |-> <<"I","N","S","E","R","T","E","D">>,
      Q_INVALID |-> <<"I","N","V","A","L","I","D">>,
      Q_SET |-> <<"S","E","T">> ]

\* The queries of the model, by name.
Queries == DOMAIN QueryText

UpperOf ==
    [c \in {"a","b","c","d","e","f","g","h","i","j","k","l","m",
            "n","o","p","q","r","s","t","u","v","w","x","y","z"} |->
        CASE c = "a" -> "A" [] c = "b" -> "B" [] c = "c" -> "C" [] c = "d" -> "D"
          [] c = "e" -> "E" [] c = "f" -> "F" [] c = "g" -> "G" [] c = "h" -> "H"
          [] c = "i" -> "I" [] c = "j" -> "J" [] c = "k" -> "K" [] c = "l" -> "L"
          [] c = "m" -> "M" [] c = "n" -> "N" [] c = "o" -> "O" [] c = "p" -> "P"
          [] c = "q" -> "Q" [] c = "r" -> "R" [] c = "s" -> "S" [] c = "t" -> "T"
          [] c = "u" -> "U" [] c = "v" -> "V" [] c = "w" -> "W" [] c = "x" -> "X"
          [] c = "y" -> "Y" [] c = "z" -> "Z"]

\* The "i" flag of the regular expression: letters compare by their upper case.
Upper(c) == IF c \in DOMAIN UpperOf THEN UpperOf[c] ELSE c

UpperLetters == {UpperOf[c] : c \in DOMAIN UpperOf}

\* \w of the regular expression.
WordChars ==
    UpperLetters \cup DOMAIN UpperOf \cup
    {"0","1","2","3","4","5","6","7","8","9","_"}

\* \s of the regular expression.
Whitespace == {" ", "\t", "\n", "\r", "\f"}

\* The alternation of the classifier's regular expression.
MutatingKeywords ==
    { <<"I","N","S","E","R","T">>, <<"C","R","E","A","T","E">>,
      <<"D","E","L","E","T","E">>, <<"R","E","M","O","V","E">>,
      <<"S","E","T">>, <<"M","E","R","G","E">>, <<"D","R","O","P">> }

\* ^\s* : the position of the first character that is not whitespace.
SkipWhitespace(q) ==
    IF \E i \in 1..Len(q) : q[i] \notin Whitespace
    THEN CHOOSE i \in 1..Len(q) :
            /\ q[i] \notin Whitespace
            /\ \A j \in 1..(i-1) : q[j] \in Whitespace
    ELSE Len(q) + 1

\* The keyword kw stands at position i of q, whatever the case of q's letters.
KeywordAt(q, i, kw) ==
    /\ i + Len(kw) - 1 <= Len(q)
    /\ \A j \in 1..Len(kw) : Upper(q[i + j - 1]) = kw[j]

\* Variant: the regular expression without its trailing \b.
BoundaryAfter_None(q, e) == TRUE

\* \b after a keyword ending at position e: the end of the text or a
\* character that is not a word character.
BoundaryAfter(q, e) == e = Len(q) \/ q[e + 1] \notin WordChars

\* \b before a word starting at position i.
BoundaryBefore(q, i) == i = 1 \/ q[i - 1] \notin WordChars

\* /^\s*(INSERT|CREATE|DELETE|REMOVE|SET|MERGE|DROP)\b/i.test(query)
isMutatingQuery(q) ==
    LET i == SkipWhitespace(q)
    IN  \E kw \in MutatingKeywords :
            KeywordAt(q, i, kw) /\ BoundaryAfter(q, i + Len(kw) - 1)

(***************************************************************************)
(* The engine (@grafeo-db/wasm), an external collaborator.  Its state is   *)
(* abstracted to the number of nodes it holds; a snapshot is that number.  *)
(***************************************************************************)
\* The word kw occurs somewhere in q as a whole word.
HasWord(q, kw) ==
    \E i \in 1..Len(q) :
        /\ KeywordAt(q, i, kw)
        /\ BoundaryBefore(q, i)
        /\ BoundaryAfter(q, i + Len(kw) - 1)

\* The engine parses the statement: it starts, after trimming, with INSERT
\* or MATCH; anything else is rejected with an error.
EngineAccepts(q) ==
    LET i == SkipWhitespace(q)
    IN  \E kw \in { <<"I","N","S","E","R","T">>, <<"M","A","T","C","H">> } :
            KeywordAt(q, i, kw) /\ BoundaryAfter(q, i + Len(kw) - 1)

\* An accepted statement with an INSERT clause adds data, wherever the
\* clause stands (MATCH ... INSERT ... of the Quick Start).
EngineMutates(q) == EngineAccepts(q) /\ HasWord(q, <<"I","N","S","E","R","T">>)

\* The three predicates on the model's queries, evaluated once.
Mutating == [q \in Queries |-> isMutatingQuery(QueryText[q])]
Accepts == [q \in Queries |-> EngineAccepts(QueryText[q])]
Mutates == [q \in Queries |-> EngineMutates(QueryText[q])]


\* The queries the modelled callers pass to execute() and executeRaw().
ExecQueries == {"Q_INSERT", "Q_MATCH", "Q_MATCH_INSERT", "Q_INVALID"}
\* The queries they pass to executeRaw().
RawQueries == {"Q_INSERT", "Q_MATCH"}

\* An engine handle: the reference is null, or it points to a live or to a
\* freed Database.  Of the engine's contents the model keeps their size:
\* `nodes` counts the inserts the database holds.
NullHandle == [st |-> "null", nodes |-> 0]
NewDatabase == [st |-> "live", nodes |-> 0]
Freed(h) == [st |-> "freed", nodes |-> 0]

\* Snapshot bytes the engine cannot decode.
BadSnapshot == -2
\* What load() finds when the store holds no record for the key.
NoRecord == -1
Snapshots == 0..MaxNodes

\* Database.exportSnapshot() through the reference h: a TypeError on a null
\* reference, an error on a freed handle, else the bytes.
ExportSnapshot(h) ==
    [ok |-> h.st = "live", val |-> h.nodes, uaf |-> h.st = "freed"]

(***************************************************************************)
(* State.                                                                  *)
(***************************************************************************)
VARIABLES
    initPromise,    \* wasm-init.ts: the memoized promise of the main thread
    initCalls,      \* number of times the bootstrap init() was invoked
    caller,         \* the concurrent callers of ensureWasmInitialized()
    store,          \* IndexedDB object store 'snapshots': key -> the record under it
    saved,          \* history: per key, the bytes of the last completed save()
    idb,            \* IndexedDB requests in flight, oldest first
    pm,             \* PersistenceManager fields, one manager per key
    db,             \* the GrafeoDB instance and the position of its create()/close()
    opens,          \* number of create() calls made so far
    px,             \* WorkerProxy fields: worker, nextId, pending
    toWorker,       \* requests posted to the worker, oldest first
    replies,        \* responses the worker posted, in order, delivered or not
    settled,        \* per request id: how the promise returned by send() ended
    wk,             \* worker globals: db, persistence (and which build runs)
    wtasks,         \* worker handlers suspended at an await that is not storage
    ev,             \* the step just taken: operation, query, outcome
    burst,          \* history per key: calls and writes since the last scheduleSave
    hist,           \* history: the engine state at close(), calls outside a claim's
                    \* script, the result of the last completed load()
    hook            \* a component using useGrafeo(): the framework's refs and
                    \* state, and the instances its create() calls produced

initVars == <<initPromise, initCalls, caller>>
idbVars == <<store, saved, idb>>
pmVars == <<pm, burst>>
proxyVars == <<px, toWorker, replies, settled>>
workerVars == <<wk, wtasks>>
vars == <<initPromise, initCalls, caller, store, saved, idb, pm, db, opens, px,
          toWorker, replies, settled, wk, wtasks, ev, burst, hist, hook>>

Keys == {"a", "b"}
NoKey == "none"
NoTimer == -1
Callers == 1..NumCallers
RequestIds == 1..MaxRequests

NoQuery == "none"
Ev(op, q, res) == [op |-> op, q |-> q, res |-> res, uaf |-> FALSE]
EvUaf(op, q, res, uaf) == [op |-> op, q |-> q, res |-> res, uaf |-> uaf]
\* A call on the PersistenceManager of key k: q names the manager.
EvPm(op, k, res) == [op |-> op, q |-> k, res |-> res, uaf |-> FALSE]

NoPromise == [id |-> 0, st |-> "none"]
\* What store.get(key) finds under a key without a record.
NoRecords == <<>>

\* No clear() of a GrafeoDB instance is being followed: st is "called"
\* while clear() awaits storage and "resolved" once it has resolved, until
\* the next state-changing call; raced tells whether a timer-triggered save
\* was awaiting storage when clear() was called.
NoClear == [st |-> "none", key |-> NoKey, raced |-> FALSE]

\* No load() has completed yet.
NotLoaded == [key |-> NoKey, val |-> NoRecord]

NewManager == [timer |-> NoTimer, dirty |-> FALSE, owner |-> "none"]
NoBurst ==
    [open |-> FALSE, rearmed |-> FALSE, snaps |-> 0, puts |-> 0,
     since |-> PersistInterval, last |-> NoRecord]
NoDb ==
    [pc |-> "none", mode |-> "none", closed |-> FALSE, wasm |-> NullHandle,
     persistence |-> NoKey, proxy |-> FALSE, closePc |-> "none", live |-> 0]
NoProxy == [worker |-> "null", nextId |-> 1, pending |-> {}]
Unsent == [st |-> "none", method |-> "none", why |-> "none", by |-> 0, val |-> 0]
NoWorker ==
    [alive |-> FALSE, db |-> NullHandle, persistence |-> NoKey, build |-> "none"]

\* The instances a component's create() calls may produce.
Instances == 1..MaxInstances

\* No component has been rendered.
NoHook ==
    [fw |-> "none", phase |-> "new", mountedRef |-> FALSE, active |-> 0,
     db |-> 0, loading |-> TRUE, error |-> FALSE,
     inst |-> [i \in Instances |-> "none"],
     instance |-> 0, subs |-> 0, left |-> FALSE, closePc |-> "none"]

\* No module bootstrapped, no database, proxy, worker or manager built.
NothingBuilt ==
    /\ initPromise = NoPromise
    /\ initCalls = 0
    /\ caller = [c \in Callers |-> [pc |-> "idle", awaits |-> 0]]
    /\ store = [k \in Keys |-> NoRecords]
    /\ saved = [k \in Keys |-> NoRecord]
    /\ idb = <<>>
    /\ pm = [k \in Keys |-> NewManager]
    /\ db = NoDb
    /\ opens = 0
    /\ px = NoProxy
    /\ toWorker = <<>>
    /\ replies = <<>>
    /\ settled = [i \in RequestIds |-> Unsent]
    /\ wk = NoWorker
    /\ wtasks = {}
    /\ burst = [k \in Keys |-> NoBurst]
    /\ hist = [atClose |-> NoRecord, offScript |-> FALSE, loaded |-> NotLoaded,
               clear |-> NoClear]
    /\ hook = NoHook

Init == NothingBuilt /\ ev = Ev("init", NoQuery, "ok")

(***************************************************************************)
(* wasm-init.ts                                                            *)
(***************************************************************************)
\* A guard that asks whether the bootstrap has completed, as a flag set at
\* the end of init() would.
NeedsInit_RacyFlag == initPromise.st # "fulfilled"
\* if (!initPromise)
NeedsInit == initPromise.st = "none"

\* ensureWasmInitialized(): the promise the call returns is initPromise'.
ensureWasmInitialized ==
    IF NeedsInit
    THEN /\ initPromise' = [id |-> initCalls + 1, st |-> "pending"]
         /\ initCalls' = initCalls + 1
    ELSE UNCHANGED <<initPromise, initCalls>>

\* A caller (a create() of index.ts or lite.ts) reaches
\* `await ensureWasmInitialized()`.
CallerEnsure(c) ==
    /\ caller[c].pc = "idle"
    /\ initCalls < NumCallers
    /\ ensureWasmInitialized
    /\ caller' = [caller EXCEPT ![c] = [pc |-> "awaiting", awaits |-> initPromise'.id]]
    /\ ev' = Ev("ensureWasmInitialized", NoQuery, "pending")
    /\ UNCHANGED <<idbVars, pmVars, db, opens, proxyVars, workerVars, hist, hook>>

\* Variant: the memoized promise swallows the failure,
\* init().then(() => undefined, () => undefined).
SettledAs_Swallowed(ok) == "fulfilled"

\* initPromise = init().then(() => undefined): fulfilled when init()
\* fulfils, rejected with its error when init() rejects.
SettledAs(ok) == IF ok THEN "fulfilled" ELSE "rejected"

\* The bootstrap started by init() ends: the module is loaded, or loading
\* failed and the promise rejects.
InitSettle(ok) ==
    /\ initPromise.st = "pending"
    /\ initPromise' = [initPromise EXCEPT !.st = SettledAs(ok)]
    /\ ev' = Ev("initSettle", NoQuery, IF ok THEN "ok" ELSE "error")
    /\ UNCHANGED <<initCalls, caller, idbVars, pmVars, db, opens, proxyVars,
                   workerVars, hist, hook>>

\* The caller's await ends with the outcome of the promise it was given.
CallerResume(c) ==
    /\ caller[c].pc = "awaiting"
    /\ initPromise.st \in {"fulfilled", "rejected"}
    /\ caller' = [caller EXCEPT ![c].pc =
                    IF initPromise.st = "fulfilled" THEN "ready" ELSE "rejected"]
    /\ ev' = Ev("ensureWasmInitialized", NoQuery,
                IF initPromise.st = "fulfilled" THEN "ok" ELSE "error")
    /\ UNCHANGED <<initPromise, initCalls, idbVars, pmVars, db, opens, proxyVars,
                   workerVars, hist, hook>>

(***************************************************************************)
(* IndexedDB, as persistence.ts uses it.  Every load(), save() and clear() *)
(* opens the database and runs one request in a transaction of its own;   *)
(* requests on the one object store complete in the order they were made. *)
(* A request carries the continuation that awaits it.                      *)
(***************************************************************************)
Request(op, key, val, cont, id) ==
    [op |-> op, key |-> key, val |-> val, cont |-> cont, id |-> id]

\* Variant: a request overtakes the requests made before it.
Enqueued_Overtaking(q, r) == <<r>> \o q

\* `const db = await openDatabase(); const tx = db.transaction(...)`: open
\* requests on one database are served in the order they were made and
\* transactions on one object store run in the order they were created.
Enqueued(q, r) == Append(q, r)

\* Room for one more request in flight.
IdbRoom == Len(idb) < MaxInFlight

\* Variant: every record is written under one fixed key.
SnapshotRecord_FixedKey(k, bytes) == [key |-> "a", snapshot |-> bytes]

\* save(): const record = { key: this.key, snapshot, timestamp: Date.now() }
\* (the timestamp is never read back).
SnapshotRecord(k, bytes) == [key |-> k, snapshot |-> bytes]

\* Variant: an empty snapshot is reported as no snapshot.
LoadResult_EmptyIsNull(found) ==
    IF found = NoRecords \/ found[1].snapshot = 0 THEN NoRecord
    ELSE found[1].snapshot

\* load(): return record?.snapshot ?? null, for the result of store.get(key)
LoadResult(found) == IF found = NoRecords THEN NoRecord ELSE found[1].snapshot

\* The oldest request completes: a successful put stores the record under
\* its 'key' property (the store's keyPath), a successful delete removes
\* the record of the key; a failed request changes nothing.
IdbApply(ok) ==
    LET r == Head(idb)
        rec == SnapshotRecord(r.key, r.val)
    IN  /\ idb' = Tail(idb)
        /\ store' =
            IF ok /\ r.op = "put" THEN [store EXCEPT ![rec.key] = <<rec>>]
            ELSE IF ok /\ r.op = "delete" THEN [store EXCEPT ![r.key] = NoRecords]
            ELSE store
        /\ saved' =
            IF ok /\ r.op = "put" THEN [saved EXCEPT ![r.key] = r.val]
            ELSE IF ok /\ r.op = "delete" THEN [saved EXCEPT ![r.key] = NoRecord]
            ELSE saved

(***************************************************************************)
(* persistence.ts: PersistenceManager                                      *)
(***************************************************************************)
\* The bytes the getSnapshot callbacks of the PersistenceManager tests
\* return, one constant array per manager.
TestBytes == [a |-> 1, b |-> 2]

\* The engine reference the getSnapshot callback reads when it is called:
\* this.wasm of the GrafeoDB instance, or db of the worker; the callbacks of
\* the PersistenceManager tests return their constant array.
SnapshotSource(k) ==
    IF pm[k].owner = "worker" THEN wk.db
    ELSE IF pm[k].owner = "test" THEN [st |-> "live", nodes |-> TestBytes[k]]
    ELSE db.wasm

\* A scheduleSave that leaves an armed timer running.
RearmedTimer_KeepsOld(k) ==
    IF pm[k].timer # NoTimer THEN pm[k].timer ELSE PersistInterval
\* scheduleSave: clearTimeout(this.timer) if armed, then setTimeout(...,
\* this.interval): the remaining time of the one timer after the call.
RearmedTimer(k) == PersistInterval

\* scheduleSave(getSnapshot)
scheduleSave(k) ==
    /\ pm' = [pm EXCEPT ![k].dirty = TRUE, ![k].timer = RearmedTimer(k)]
    /\ burst' = [burst EXCEPT ![k] =
                    [open |-> TRUE, rearmed |-> pm[k].timer # NoTimer, snaps |-> 0,
                     puts |-> 0, since |-> 0, last |-> burst[k].last]]

\* Variant: the timer callback has no try/catch around the save.
DebouncedFailure_Uncaught == "unhandledRejection"

\* Where an error of the timer callback ends up:
\*   catch (err) { this.onError(err instanceof Error ? err : new Error(String(err))) }
DebouncedFailure == "onError"

\* Variant: clear() deletes the record without touching the timer or the
\* dirty flag.
ClearedManager_KeepsPending(m) == m

\* clear(): if (this.timer !== null) { clearTimeout(this.timer);
\* this.timer = null }  this.dirty = false;
ClearedManager(m) == [m EXCEPT !.timer = NoTimer, !.dirty = FALSE]

\* Time passes by one tick: armed timers come one tick closer to expiry.
Tick ==
    /\ \E k \in Keys : pm[k].timer > 0 \/ burst[k].since < PersistInterval
    /\ pm' = [k \in Keys |->
                IF pm[k].timer > 0 THEN [pm[k] EXCEPT !.timer = @ - 1] ELSE pm[k]]
    /\ burst' = [k \in Keys |->
                IF burst[k].since < PersistInterval
                THEN [burst[k] EXCEPT !.since = @ + 1] ELSE burst[k]]
    /\ ev' = Ev("tick", NoQuery, "ok")
    /\ UNCHANGED <<initVars, idbVars, db, opens, proxyVars, workerVars, hist, hook>>

\* The callback scheduleSave handed to setTimeout runs (the timer has
\* expired; the host may run it late):
\*   this.timer = null; if (this.dirty) { this.dirty = false;
\*   try { await this.save(getSnapshot()) } catch (err) { this.onError(err) } }
TimerFire(k) ==
    /\ pm[k].timer = 0
    /\ LET snap == ExportSnapshot(SnapshotSource(k))
       IN  IF ~pm[k].dirty
           THEN /\ pm' = [pm EXCEPT ![k].timer = NoTimer]
                /\ ev' = Ev("timerFire", NoQuery, "clean")
                /\ UNCHANGED <<idb, burst>>
           ELSE IF ~snap.ok
           THEN /\ pm' = [pm EXCEPT ![k].timer = NoTimer, ![k].dirty = FALSE]
                /\ burst' = [burst EXCEPT ![k].snaps = @ + 1]
                /\ ev' = EvUaf("timerFire", NoQuery, DebouncedFailure, snap.uaf)
                /\ UNCHANGED idb
           ELSE /\ IdbRoom
                /\ pm' = [pm EXCEPT ![k].timer = NoTimer, ![k].dirty = FALSE]
                /\ idb' = Enqueued(idb, Request("put", k, snap.val, "timer", 0))
                /\ burst' = [burst EXCEPT ![k].snaps = @ + 1, ![k].puts = @ + 1,
                                          ![k].last = snap.val]
                /\ ev' = Ev("timerFire", NoQuery, "snapshot")
    /\ UNCHANGED <<initVars, store, saved, db, opens, proxyVars, workerVars, hist, hook>>

\* The put of a timer-triggered save completes; nothing awaits it but the
\* callback's own try/catch, which hands a failure to onError.
\* Variant: the callback marks the manager clean when its write is done.
DirtyAfterWrite_Cleared(k) == FALSE

\* The timer callback resets dirty before `await this.save(snapshot)` and
\* does not touch it afterwards.
DirtyAfterWrite(k) == pm[k].dirty

TimerSaveSettles(ok) ==
    /\ idb # <<>>
    /\ Head(idb).cont = "timer"
    /\ IdbApply(ok)
    /\ pm' = [pm EXCEPT ![Head(idb).key].dirty = DirtyAfterWrite(Head(idb).key)]
    /\ ev' = Ev("timerSave", NoQuery, IF ok THEN "ok" ELSE DebouncedFailure)
    /\ UNCHANGED <<initVars, burst, db, opens, proxyVars, workerVars, hist, hook>>

(***************************************************************************)
(* worker-proxy.ts: WorkerProxy.send                                       *)
(***************************************************************************)
NoArg == [q |-> NoQuery, n |-> 0, key |-> NoKey]
QueryArg(q) == [q |-> q, n |-> 0, key |-> NoKey]
NumArg(n) == [q |-> NoQuery, n |-> n, key |-> NoKey]
OptionsArg(k) == [q |-> NoQuery, n |-> 0, key |-> k]

\* Variant: the guard only recognises a proxy on which init() never ran.
sendRejects_OnlyBeforeInit == px.worker = "null" /\ px.nextId = 1

\* if (!this.worker) reject(new Error('Worker not initialized'))
sendRejects == px.worker = "null"

\* Variant: the id is the smallest one that is not in the pending map.
AllocatedId_FirstFree ==
    CHOOSE i \in 1..px.nextId : i \notin px.pending /\ \A j \in 1..(i - 1) : j \in px.pending

\* const id = this.nextId++
AllocatedId == px.nextId

\* const id = this.nextId++; this.pending.set(id, ...); postMessage(...)
send(method, arg) ==
    /\ px.nextId <= MaxRequests
    /\ px' = [px EXCEPT !.nextId = @ + 1, !.pending = @ \cup {AllocatedId}]
    /\ toWorker' = Append(toWorker, [id |-> AllocatedId, method |-> method, arg |-> arg])
    /\ settled' = [settled EXCEPT ![AllocatedId] =
                    [Unsent EXCEPT !.st = "pending", !.method = method]]
    /\ UNCHANGED replies

\* new WorkerProxy().init(options): this.worker = new Worker(...), the two
\* handlers are attached, and 'init' is sent as request 1.
proxyInit(persist, build) ==
    /\ px' = [worker |-> "live", nextId |-> 2, pending |-> {1}]
    /\ toWorker' = <<[id |-> 1, method |-> "init", arg |-> OptionsArg(persist)]>>
    /\ replies' = <<>>
    /\ settled' = [i \in RequestIds |->
                    IF i = 1 THEN [Unsent EXCEPT !.st = "pending", !.method = "init"]
                    ELSE Unsent]
    /\ wk' = [alive |-> TRUE, db |-> NullHandle, persistence |-> NoKey,
              build |-> build]
    /\ wtasks' = {}

\* What awaits a storage request of the worker.
WorkerConts == {"winit", "wclear", "wclose"}

(***************************************************************************)
(* index.ts: GrafeoDB                                                      *)
(***************************************************************************)
\* An assertOpen that looks at the engine handle instead of the flag.
assertOpenThrows_ChecksHandle == ~db.proxy /\ db.wasm.st = "null"
\* private assertOpen(): if (this.closed) throw new Error('Database is closed')
assertOpenThrows == db.closed

\* The call is refused: nothing but its outcome changes.
Refuse(op, q) ==
    /\ ev' = Ev(op, q, "Database is closed")
    /\ UNCHANGED <<initVars, idbVars, pmVars, db, opens, proxyVars, workerVars, hist, hook>>

\* return this.proxy.<method>(...): the call becomes a request to the worker.
Forward(op, q, method, arg) ==
    /\ IF sendRejects
       THEN /\ ev' = Ev(op, q, "Worker not initialized")
            /\ UNCHANGED proxyVars
       ELSE /\ send(method, arg)
            /\ ev' = Ev(op, q, "sent")
    /\ UNCHANGED <<initVars, idbVars, pmVars, db, opens, workerVars, hist, hook>>

\* The instance create() returned is in the caller's hands.
Usable == db.pc = "ready"

\* static create(options): `await ensureWasmInitialized()` in direct mode,
\* createWithWorker(options) with options.worker.  A later create() on the
\* key follows a close() that resolved or a create() that failed.
Create(worker, persist, build) ==
    /\ opens < MaxOpens
    /\ \/ db.pc = "none"
       \/ db.pc = "ready" /\ db.closePc = "resolved"
       \/ db.pc = "createFailed" /\ db.mode = "direct"
    /\ opens' = opens + 1
    /\ UNCHANGED hook
    /\ hist' = [hist EXCEPT !.offScript = FALSE,
                            !.clear = IF persist # NoKey /\ persist = @.key
                                      THEN @ ELSE NoClear]
    /\ IF worker
       THEN /\ db' = [NoDb EXCEPT !.pc = "awaitProxyInit", !.mode = "worker",
                                  !.proxy = TRUE]
            /\ proxyInit(persist, build)
            /\ UNCHANGED <<initPromise, initCalls>>
       ELSE /\ ensureWasmInitialized
            /\ db' = [NoDb EXCEPT !.pc = "awaitInit", !.mode = "direct",
                                  !.persistence = persist]
            /\ UNCHANGED <<proxyVars, workerVars>>
    /\ ev' = Ev("create", NoQuery, "pending")
    /\ UNCHANGED <<caller, idbVars, pmVars>>

\* create() resumes after `await ensureWasmInitialized()`:
\*   const wasm = new WasmDatabase();
\*   if (options?.persist) { persistence = new PersistenceManager(...);
\*                           const snapshot = await persistence.load(); ... }
CreateAfterInit ==
    /\ db.pc = "awaitInit"
    /\ initPromise.st \in {"fulfilled", "rejected"}
    /\ IF initPromise.st = "rejected"
       THEN /\ db' = [db EXCEPT !.pc = "createFailed"]
            /\ ev' = Ev("create", NoQuery, "error")
            /\ UNCHANGED <<idb, pmVars>>
       ELSE IF db.persistence = NoKey
       THEN /\ db' = [db EXCEPT !.pc = "ready", !.wasm = NewDatabase, !.live = 1]
            /\ ev' = Ev("create", NoQuery, "ok")
            /\ UNCHANGED <<idb, pmVars>>
       ELSE /\ IdbRoom
            /\ db' = [db EXCEPT !.pc = "awaitLoad", !.wasm = NewDatabase, !.live = 1]
            /\ pm' = [pm EXCEPT ![db.persistence] = [NewManager EXCEPT !.owner = "direct"]]
            /\ burst' = [burst EXCEPT ![db.persistence] = NoBurst]
            /\ idb' = Enqueued(idb, Request("get", db.persistence, 0, "load", 0))
            /\ ev' = Ev("create", NoQuery, "loading")
    /\ UNCHANGED <<initVars, store, saved, opens, proxyVars, workerVars, hist, hook>>

\* create() resumes after `await persistence.load()`:
\*   if (snapshot) wasm.importSnapshot(snapshot); return new GrafeoDB(...)
CreateLoadSettles(ok) ==
    /\ idb # <<>>
    /\ Head(idb).cont = "load"
    /\ IdbApply(ok)
    /\ LET snapshot == LoadResult(store[Head(idb).key])
       IN  IF ~ok
           THEN /\ db' = [db EXCEPT !.pc = "createFailed"]
                /\ ev' = Ev("create", NoQuery, "error")
           ELSE /\ db' = [db EXCEPT !.pc = "ready",
                                    !.wasm.nodes = IF snapshot = NoRecord THEN 0 ELSE snapshot]
                /\ ev' = Ev("create", NoQuery, "ok")
    /\ UNCHANGED <<initVars, pmVars, opens, proxyVars, workerVars, hist, hook>>

\* The condition without the classifier: if (this.persistence)
ShouldPersist_Always(q) == db.persistence # NoKey
\* if (this.persistence && isMutatingQuery(query))
ShouldPersist(q) == db.persistence # NoKey /\ Mutating[q]

\* Variant: the save is scheduled before the engine is given the query.
SchedulesOnThrow_ScheduleFirst(q) == ShouldPersist(q)

\* this.wasm!.execute(query) throws before the scheduleSave line is reached.
SchedulesOnThrow(q) == FALSE

\* execute(query, options) and executeRaw(query): assertOpen, then the
\* proxy, else the engine followed by scheduleSave for a mutating query.
ExecuteVia(op, q) ==
    /\ Usable
    /\ IF assertOpenThrows THEN Refuse(op, q)
       ELSE IF db.proxy THEN Forward(op, q, op, QueryArg(q))
       ELSE IF db.wasm.st # "live" \/ ~Accepts[q]
       THEN /\ ev' = EvUaf(op, q, "engineError", db.wasm.st = "freed")
            /\ UNCHANGED hook
            /\ hist' = [hist EXCEPT !.offScript = TRUE]
            /\ IF SchedulesOnThrow(q)
               THEN scheduleSave(db.persistence)
               ELSE UNCHANGED pmVars
            /\ UNCHANGED <<initVars, idbVars, db, opens, proxyVars, workerVars>>
       ELSE /\ Mutates[q] => db.wasm.nodes < MaxNodes
            /\ db' = [db EXCEPT !.wasm.nodes = IF Mutates[q] THEN @ + 1 ELSE @]
            /\ IF ShouldPersist(q)
               THEN scheduleSave(db.persistence)
               ELSE UNCHANGED pmVars
            /\ UNCHANGED hook
            /\ hist' = [hist EXCEPT !.offScript = @ \/ ~Mutating[q],
                                    !.clear = IF Mutating[q] \/ Mutates[q]
                                              THEN NoClear ELSE @]
            /\ ev' = Ev(op, q, "ok")
            /\ UNCHANGED <<initVars, idbVars, opens, proxyVars, workerVars>>

Execute(q) == ExecuteVia("execute", q)

ExecuteRaw(q) == ExecuteVia("executeRaw", q)

\* nodeCount() and edgeCount(): assertOpen, then the proxy, else the engine.
CountVia(op) ==
    /\ Usable
    /\ IF assertOpenThrows THEN Refuse(op, NoQuery)
       ELSE IF db.proxy THEN Forward(op, NoQuery, op, NoArg)
       ELSE /\ ev' = EvUaf(op, NoQuery,
                           IF db.wasm.st = "live" THEN "ok" ELSE "engineError",
                           db.wasm.st = "freed")
            /\ UNCHANGED <<initVars, idbVars, pmVars, db, opens, proxyVars,
                           workerVars, hist, hook>>

NodeCount == CountVia("nodeCount")

EdgeCount == CountVia("edgeCount")

\* storageStats(): assertOpen, then the proxy, else the manager's estimate
\* or zeros.
StorageStats ==
    /\ Usable
    /\ IF assertOpenThrows THEN Refuse("storageStats", NoQuery)
       ELSE IF db.proxy THEN Forward("storageStats", NoQuery, "storageStats", NoArg)
       ELSE /\ ev' = Ev("storageStats", NoQuery, "ok")
            /\ UNCHANGED <<initVars, idbVars, pmVars, db, opens, proxyVars,
                           workerVars, hist, hook>>

\* export(): assertOpen, then the proxy, else wasm.exportSnapshot().
Export ==
    /\ Usable
    /\ IF assertOpenThrows THEN Refuse("export", NoQuery)
       ELSE IF db.proxy THEN Forward("export", NoQuery, "export", NoArg)
       ELSE /\ ev' = EvUaf("export", NoQuery,
                           IF ExportSnapshot(db.wasm).ok THEN "ok" ELSE "engineError",
                           ExportSnapshot(db.wasm).uaf)
            /\ UNCHANGED <<initVars, idbVars, pmVars, db, opens, proxyVars,
                           workerVars, hist, hook>>

\* import(snapshot): assertOpen, then the proxy, else
\*   this.wasm.importSnapshot(snapshot.data); scheduleSave if persisted.
Import(s) ==
    /\ Usable
    /\ IF assertOpenThrows THEN Refuse("import", NoQuery)
       ELSE IF db.proxy THEN Forward("import", NoQuery, "import", NumArg(s))
       ELSE IF db.wasm.st # "live" \/ s = BadSnapshot
       THEN /\ ev' = EvUaf("import", NoQuery, "engineError", db.wasm.st = "freed")
            /\ UNCHANGED hook
            /\ hist' = [hist EXCEPT !.offScript = TRUE]
            /\ UNCHANGED <<initVars, idbVars, pmVars, db, opens, proxyVars, workerVars>>
       ELSE /\ db' = [db EXCEPT !.wasm.nodes = s]
            /\ IF db.persistence # NoKey
               THEN scheduleSave(db.persistence)
               ELSE UNCHANGED pmVars
            /\ UNCHANGED hook
            /\ hist' = [hist EXCEPT !.clear = NoClear]
            /\ ev' = Ev("import", NoQuery, "ok")
            /\ UNCHANGED <<initVars, idbVars, opens, proxyVars, workerVars>>

\* clear(): assertOpen, then the proxy, else
\*   this.wasm.free(); this.wasm = new WasmDatabase();
\*   if (this.persistence) await this.persistence.clear();
\* PersistenceManager.clear() cancels the timer, clears dirty and deletes
\* the record.
\* clear() in direct mode: `this.wasm!.free(); this.wasm = new WasmDatabase()`.
\* Of the n engine handles the orchestrator has created and not yet freed,
\* one is freed and one is created.
HandlesAfterClear_NoFree(n) == n + 1

HandlesAfterClear(n) == (n - 1) + 1

Clear ==
    /\ Usable
    /\ IF assertOpenThrows THEN Refuse("clear", NoQuery)
       ELSE IF db.proxy THEN Forward("clear", NoQuery, "clear", NoArg)
       ELSE /\ db' = [db EXCEPT !.wasm = NewDatabase, !.live = HandlesAfterClear(@)]
            /\ UNCHANGED hook
            /\ hist' = [hist EXCEPT
                    !.offScript = TRUE,
                    !.clear = [st |-> IF db.persistence = NoKey
                                      THEN "resolved" ELSE "called",
                               key |-> db.persistence,
                               raced |-> \E i \in 1..Len(idb) :
                                            /\ idb[i].cont = "timer"
                                            /\ idb[i].key = db.persistence]]
            /\ IF db.persistence = NoKey
               THEN /\ ev' = Ev("clear", NoQuery, "ok")
                    /\ UNCHANGED <<idb, pmVars>>
               ELSE /\ IdbRoom
                    /\ pm' = [pm EXCEPT ![db.persistence] = ClearedManager(@)]
                    /\ burst' = [burst EXCEPT ![db.persistence] = NoBurst]
                    /\ idb' = Enqueued(idb, Request("delete", db.persistence, 0, "clear", 0))
                    /\ ev' = Ev("clear", NoQuery, "pending")
            /\ UNCHANGED <<initVars, store, saved, opens, proxyVars, workerVars>>

\* clear() resumes after `await this.persistence.clear()`.  The history
\* follows the latest clear(): the delete of an earlier call that is still
\* in flight settles that earlier call.
ClearSettles(ok) ==
    /\ idb # <<>>
    /\ Head(idb).cont = "clear"
    /\ IdbApply(ok)
    /\ UNCHANGED hook
    /\ hist' = [hist EXCEPT !.clear =
                    IF \E i \in 2..Len(idb) : idb[i].cont = "clear" THEN @
                    ELSE IF ~ok THEN NoClear
                    ELSE IF @.st = "called" THEN [@ EXCEPT !.st = "resolved"]
                    ELSE @]
    /\ ev' = Ev("clearSettles", NoQuery, IF ok THEN "ok" ELSE "error")
    /\ UNCHANGED <<initVars, pmVars, db, opens, proxyVars, workerVars>>

\* changesSince(timestamp): assertOpen; returns [].
ChangesSince ==
    /\ Usable
    /\ IF assertOpenThrows THEN Refuse("changesSince", NoQuery)
       ELSE /\ ev' = Ev("changesSince", NoQuery, "ok")
            /\ UNCHANGED <<initVars, idbVars, pmVars, db, opens, proxyVars,
                           workerVars, hist, hook>>

\* get isOpen(): return !this.closed
isOpen_WhileHandleHeld == db.proxy \/ db.wasm # NullHandle

isOpen == ~db.closed

\* Reading db.isOpen on an instance create() has returned.
IsOpen ==
    /\ Usable
    /\ ev' = Ev("isOpen", NoQuery, IF isOpen THEN "true" ELSE "false")
    /\ UNCHANGED <<initVars, idbVars, pmVars, db, opens, proxyVars,
                   workerVars, hist, hook>>

\* Variant: close() on a closed instance goes through assertOpen().
closeAgain_Throws == "Database is closed"

\* if (this.closed) return;  -- close() on a closed instance resolves.
closeAgain == "ok"

\* The end of close() in direct mode:
\*   this.persistence = null; if (this.wasm) { this.wasm.free(); this.wasm = null }
Released(d) ==
    [d EXCEPT !.persistence = NoKey, !.wasm = NullHandle, !.closePc = "resolved",
              !.live = IF d.wasm.st = "null" THEN @ ELSE @ - 1]

\* close(): if (this.closed) return; this.closed = true; then the proxy's
\* close(), or flush() of the manager followed by the release of the
\* engine.  flush() cancels the timer and, if dirty, clears dirty and awaits
\* save(getSnapshot()).
Close ==
    /\ Usable
    /\ IF db.closed
       THEN /\ ev' = Ev("close", NoQuery, closeAgain)
            /\ UNCHANGED <<idb, pmVars, db, proxyVars, hist, hook>>
       ELSE IF db.proxy
       THEN /\ IF sendRejects
               THEN /\ db' = [db EXCEPT !.closed = TRUE, !.closePc = "rejected"]
                    /\ ev' = Ev("close", NoQuery, "Worker not initialized")
                    /\ UNCHANGED proxyVars
               ELSE /\ send("close", NoArg)
                    /\ db' = [db EXCEPT !.closed = TRUE, !.closePc = "awaitReply"]
                    /\ ev' = Ev("close", NoQuery, "sent")
            /\ UNCHANGED <<idb, pmVars, hist, hook>>
       ELSE IF db.persistence = NoKey
       THEN /\ db' = Released([db EXCEPT !.closed = TRUE])
            /\ ev' = Ev("close", NoQuery, "ok")
            /\ UNCHANGED <<idb, pmVars, proxyVars, hist, hook>>
       ELSE LET k == db.persistence
                snap == ExportSnapshot(db.wasm)
            IN  /\ UNCHANGED hook
                /\ hist' = [hist EXCEPT !.atClose =
                                IF hist.offScript THEN NoRecord ELSE db.wasm.nodes]
                /\ burst' = [burst EXCEPT ![k] =
                                [NoBurst EXCEPT !.last = IF pm[k].dirty /\ snap.ok
                                                         THEN snap.val ELSE burst[k].last]]
                /\ UNCHANGED proxyVars
                /\ IF ~pm[k].dirty
                   THEN /\ pm' = [pm EXCEPT ![k].timer = NoTimer]
                        /\ db' = Released([db EXCEPT !.closed = TRUE])
                        /\ ev' = Ev("close", NoQuery, "ok")
                        /\ UNCHANGED idb
                   ELSE IF ~snap.ok
                   THEN /\ pm' = [pm EXCEPT ![k].timer = NoTimer, ![k].dirty = FALSE]
                        /\ db' = [db EXCEPT !.closed = TRUE, !.closePc = "rejected"]
                        /\ ev' = EvUaf("close", NoQuery, "error", snap.uaf)
                        /\ UNCHANGED idb
                   ELSE /\ IdbRoom
                        /\ pm' = [pm EXCEPT ![k].timer = NoTimer, ![k].dirty = FALSE]
                        /\ idb' = Enqueued(idb, Request("put", k, snap.val, "close", 0))
                        /\ db' = [db EXCEPT !.closed = TRUE, !.closePc = "awaitFlush"]
                        /\ ev' = Ev("close", NoQuery, "flushing")
    /\ UNCHANGED <<initVars, store, saved, opens, workerVars>>

\* close() resumes after `await this.persistence.flush(...)`: the engine is
\* released, or the failed write rejects close() before the release.
CloseFlushSettles(ok) ==
    /\ idb # <<>>
    /\ Head(idb).cont = "close"
    /\ IdbApply(ok)
    /\ db' = IF ok THEN Released(db) ELSE [db EXCEPT !.closePc = "rejected"]
    /\ ev' = Ev("close", NoQuery, IF ok THEN "ok" ELSE "error")
    /\ UNCHANGED <<initVars, pmVars, opens, proxyVars, workerVars, hist, hook>>

(***************************************************************************)
(* worker-proxy.ts: the handlers WorkerProxy.init attaches to the worker,  *)
(* each with the continuations of the promises it settles.                 *)
(***************************************************************************)
\* A lookup that takes the oldest pending request, whatever the reply's id.
MatchPending_Oldest(id) ==
    IF px.pending = {} THEN 0
    ELSE CHOOSE i \in px.pending : \A j \in px.pending : i <= j
\* Variant: the entry is never deleted, a settled request is found again.
MatchPending_NeverDeleted(id) == IF settled[id].st # "none" THEN id ELSE 0

\* const request = this.pending.get(id): the pending request a reply
\* settles, 0 when there is none.
MatchPending(id) == IF id \in px.pending THEN id ELSE 0

\* A loop that stops after the first entry.
FaultRejects_OldestOnly ==
    IF px.pending = {} THEN {}
    ELSE {CHOOSE i \in px.pending : \A j \in px.pending : i <= j}
\* for (const request of this.pending.values()) request.reject(error):
\* the requests a worker fault rejects.
FaultRejects == px.pending

\* Worker.terminate(): the worker stops, and with it its timers; what its
\* storage requests were awaited by is gone.
Terminated(w) == [w EXCEPT !.alive = FALSE]
Orphaned(q) ==
    [i \in 1..Len(q) |->
        IF q[i].cont \in WorkerConts THEN [q[i] EXCEPT !.cont = "orphan"] ELSE q[i]]
TimersStopped ==
    [k \in Keys |-> IF pm[k].owner = "worker"
                    THEN [pm[k] EXCEPT !.timer = NoTimer] ELSE pm[k]]

\* What the settling of request p means to the GrafeoDB instance:
\* createWithWorker resumes after `await proxy.init(options)`, close()
\* resumes after `await this.proxy.close()` with `this.proxy = null`.
AfterSettled(method, ok) ==
    IF db.mode = "worker" /\ method = "init" /\ db.pc = "awaitProxyInit"
    THEN [db EXCEPT !.pc = IF ok THEN "ready" ELSE "createFailed"]
    ELSE IF db.mode = "worker" /\ method = "close" /\ db.closePc = "awaitReply"
    THEN IF ok THEN [db EXCEPT !.proxy = FALSE, !.closePc = "resolved"]
         ELSE [db EXCEPT !.closePc = "rejected"]
    ELSE db

\* worker.onmessage: the i-th response is delivered.  A worker's responses
\* arrive in the order it posted them; the mock worker of the tests hands
\* them over in any order.  WorkerProxy.close() continues after a resolved
\* 'close': this.worker?.terminate(); this.worker = null;
\* this.pending.clear().
\* WorkerProxy.close(): `await this.send('close')` and then terminate(),
\* `this.worker = null`, `this.pending.clear()`.  The lines after the await
\* run when the 'close' request resolves; a rejected one throws out of close().
\* Variant: they run at the first reply that arrives after close() was called.
ClosesProxy_AnyReply(method, err) ==
    \E c \in px.pending : settled[c].method = "close"

ClosesProxy(method, err) == method = "close" /\ ~err

OnMessage(i) ==
    /\ px.worker = "live"
    /\ i \in 1..Len(replies)
    /\ ~replies[i].delivered
    /\ wk.build # "mock" => \A j \in 1..(i - 1) : replies[j].delivered
    /\ LET r == replies[i]
           p == MatchPending(r.id)
           method == IF p = 0 THEN "none" ELSE settled[p].method
           outcome == IF r.err THEN "rejected" ELSE "resolved"
       IN  /\ replies' = [replies EXCEPT ![i].delivered = TRUE]
           /\ settled' =
                IF p = 0 THEN settled
                ELSE [settled EXCEPT ![p] =
                        [@ EXCEPT !.st = outcome, !.why = "reply", !.by = r.id,
                                  !.val = r.val]]
           /\ IF ClosesProxy(method, r.err)
              THEN /\ px' = [px EXCEPT !.worker = "null", !.pending = {}]
                   /\ wk' = Terminated(wk)
                   /\ pm' = TimersStopped
                   /\ idb' = Orphaned(idb)
                   /\ wtasks' = {}
              ELSE /\ px' = [px EXCEPT !.pending = @ \ {r.id}]
                   /\ UNCHANGED <<wk, pm, idb, wtasks>>
           /\ db' = AfterSettled(method, ~r.err)
           /\ ev' = Ev("onmessage", NoQuery, IF p = 0 THEN "ignored" ELSE outcome)
    /\ UNCHANGED <<initVars, store, saved, burst, opens, toWorker, hist, hook>>

\* worker.onerror: every pending request is rejected with the fault and the
\* map is cleared; the worker reference stays.
OnError ==
    /\ px.worker = "live"
    /\ px.nextId > 1
    /\ settled' = [i \in RequestIds |->
                    IF i \in FaultRejects
                    THEN [settled[i] EXCEPT !.st = "rejected", !.why = "fault"]
                    ELSE settled[i]]
    /\ px' = [px EXCEPT !.pending = {}]
    /\ db' = IF 1 \in FaultRejects /\ settled[1].method = "init"
             THEN AfterSettled("init", FALSE)
             ELSE IF \E i \in FaultRejects : settled[i].method = "close"
             THEN AfterSettled("close", FALSE)
             ELSE db
    /\ ev' = Ev("onerror", NoQuery, "fault")
    /\ UNCHANGED <<initVars, idbVars, pmVars, opens, toWorker, replies,
                   workerVars, hist, hook>>

(***************************************************************************)
(* worker.ts: handleMessage, in the two builds of the repository.  The     *)
(* worker takes its messages oldest first; a handler runs to its first     *)
(* await, and the rest of it runs when what it awaits has settled.         *)
(***************************************************************************)
Builds == {"worker.ts", "part_002"}

\* The worker is ready to run the handler of its oldest message.
Takes(methods) ==
    /\ wk.alive
    /\ wk.build \in Builds
    /\ toWorker # <<>>
    /\ Head(toWorker).method \in methods

\* Variant: the message is posted twice.
respond_Twice(id, err, val) ==
    replies' = replies \o <<[id |-> id, err |-> err, val |-> val, delivered |-> FALSE],
                            [id |-> id, err |-> err, val |-> val, delivered |-> FALSE]>>

\* respond(id, result, error): the message carries `error` when one is
\* given and `result` otherwise; self.postMessage(message)
respond(id, err, val) ==
    replies' = Append(replies, [id |-> id, err |-> err, val |-> val,
                                delivered |-> FALSE])

\* case 'init': await init(); then, with options.persist, a new
\* PersistenceManager and `await persistence.load()`.  worker.ts makes the
\* Database before the load, the other build after it.  create() sends
\* nothing else until 'init' is answered, so the first await is not a step
\* of its own.
WorkerInit(ok) ==
    /\ Takes({"init"})
    /\ toWorker' = Tail(toWorker)
    /\ LET m == Head(toWorker)
           k == m.arg.key
           made == IF wk.build = "worker.ts" THEN NewDatabase ELSE wk.db
       IN  IF ~ok
           THEN /\ respond(m.id, TRUE, 0)
                /\ ev' = Ev("worker.init", NoQuery, "error")
                /\ UNCHANGED <<wk, idb, pmVars>>
           ELSE IF k = NoKey
           THEN /\ wk' = [wk EXCEPT !.db = NewDatabase]
                /\ respond(m.id, FALSE, 0)
                /\ ev' = Ev("worker.init", NoQuery, "ok")
                /\ UNCHANGED <<idb, pmVars>>
           ELSE /\ IdbRoom
                /\ wk' = [wk EXCEPT !.db = made, !.persistence = k]
                /\ pm' = [pm EXCEPT ![k] = [NewManager EXCEPT !.owner = "worker"]]
                /\ burst' = [burst EXCEPT ![k] = NoBurst]
                /\ idb' = Enqueued(idb, Request("get", k, 0, "winit", m.id))
                /\ ev' = Ev("worker.init", NoQuery, "loading")
                /\ UNCHANGED replies
    /\ UNCHANGED <<initVars, store, saved, db, opens, px, settled, wtasks, hist, hook>>

\* 'init' resumes after `await persistence.load()`: the snapshot, if any,
\* is imported, and the request is answered; a failed load is answered
\* with the error.
WorkerLoadSettles(ok) ==
    /\ wk.alive
    /\ idb # <<>>
    /\ Head(idb).cont = "winit"
    /\ IdbApply(ok)
    /\ LET snapshot == LoadResult(store[Head(idb).key])
       IN  IF ~ok
           THEN /\ respond(Head(idb).id, TRUE, 0)
                /\ ev' = Ev("worker.init", NoQuery, "error")
                /\ UNCHANGED wk
           ELSE /\ wk' = [wk EXCEPT !.db =
                            [st |-> "live",
                             nodes |-> IF snapshot = NoRecord THEN 0 ELSE snapshot]]
                /\ respond(Head(idb).id, FALSE, 0)
                /\ ev' = Ev("worker.init", NoQuery, "ok")
    /\ UNCHANGED <<initVars, pmVars, db, opens, px, toWorker, settled, wtasks, hist, hook>>

\* worker.ts: if (persistence); the other build:
\* if (persistence && isMutatingQuery(query))
WorkerShouldPersist(q) ==
    wk.persistence # NoKey /\ (wk.build = "worker.ts" \/ Mutating[q])

\* A handler that answers in the step in which it takes its message.
Answer(op, q, err, val, uaf) ==
    /\ toWorker' = Tail(toWorker)
    /\ respond(Head(toWorker).id, err, val)
    /\ ev' = EvUaf(op, q, IF err THEN "error" ELSE "ok", uaf)

\* case 'execute' and case 'executeRaw':
\*   if (!db) throw ...; db.execute(query); scheduleSave; respond(id, result)
WorkerExecuteVia(method) ==
    /\ Takes({method})
    /\ LET q == Head(toWorker).arg.q
           op == IF method = "execute" THEN "worker.execute" ELSE "worker.executeRaw"
       IN  IF wk.db.st # "live" \/ ~Accepts[q]
           THEN /\ Answer(op, q, TRUE, 0, wk.db.st = "freed")
                /\ UNCHANGED <<wk, pmVars>>
           ELSE /\ Mutates[q] => wk.db.nodes < MaxNodes
                /\ wk' = [wk EXCEPT !.db.nodes = IF Mutates[q] THEN @ + 1 ELSE @]
                /\ IF WorkerShouldPersist(q)
                   THEN scheduleSave(wk.persistence)
                   ELSE UNCHANGED pmVars
                /\ Answer(op, q, FALSE, 0, FALSE)
    /\ UNCHANGED <<initVars, idbVars, db, opens, px, settled, wtasks, hist, hook>>

WorkerExecute == WorkerExecuteVia("execute")

WorkerExecuteRaw == WorkerExecuteVia("executeRaw")

\* case 'nodeCount' and case 'edgeCount':
\*   if (!db) throw ...; respond(id, db.nodeCount())
WorkerCountVia(method) ==
    /\ Takes({method})
    /\ LET op == IF method = "nodeCount" THEN "worker.nodeCount" ELSE "worker.edgeCount"
       IN  IF wk.db.st # "live"
           THEN Answer(op, NoQuery, TRUE, 0, wk.db.st = "freed")
           ELSE Answer(op, NoQuery, FALSE, wk.db.nodes, FALSE)
    /\ UNCHANGED <<initVars, idbVars, pmVars, db, opens, px, settled, workerVars, hist, hook>>

WorkerNodeCount == WorkerCountVia("nodeCount")

WorkerEdgeCount == WorkerCountVia("edgeCount")

\* case 'export': if (!db) throw ...; respond(id, {data: db.exportSnapshot()})
WorkerExport ==
    /\ Takes({"export"})
    /\ LET snap == ExportSnapshot(wk.db)
       IN  IF snap.ok
           THEN Answer("worker.export", NoQuery, FALSE, snap.val, FALSE)
           ELSE Answer("worker.export", NoQuery, TRUE, 0, snap.uaf)
    /\ UNCHANGED <<initVars, idbVars, pmVars, db, opens, px, settled, workerVars, hist, hook>>

\* case 'import'.  worker.ts: db.importSnapshot(snapshot.data) on the
\* handle it has.  The other build: db.free(); db =
\* Database.importSnapshot(snapshot.data), and when the bytes cannot be
\* decoded the assignment does not happen.
WorkerImport ==
    /\ Takes({"import"})
    /\ LET snap == Head(toWorker).arg.n
       IN  IF wk.db.st = "null"
           THEN /\ Answer("worker.import", NoQuery, TRUE, 0, FALSE)
                /\ UNCHANGED <<wk, pmVars>>
           ELSE IF wk.build = "worker.ts" /\ (wk.db.st = "freed" \/ snap = BadSnapshot)
           THEN /\ Answer("worker.import", NoQuery, TRUE, 0, wk.db.st = "freed")
                /\ UNCHANGED <<wk, pmVars>>
           ELSE IF snap = BadSnapshot
           THEN /\ wk' = [wk EXCEPT !.db = Freed(wk.db)]
                /\ Answer("worker.import", NoQuery, TRUE, 0, FALSE)
                /\ UNCHANGED pmVars
           ELSE /\ wk' = [wk EXCEPT !.db = [st |-> "live", nodes |-> snap]]
                /\ IF wk.persistence # NoKey
                   THEN scheduleSave(wk.persistence)
                   ELSE UNCHANGED pmVars
                /\ Answer("worker.import", NoQuery, FALSE, 0, FALSE)
    /\ UNCHANGED <<initVars, idbVars, db, opens, px, settled, wtasks, hist, hook>>

\* case 'clear': if (!db) throw ...; db.free(); db = new Database();
\*   if (persistence) await persistence.clear(); respond(id)
WorkerClear ==
    /\ Takes({"clear"})
    /\ IF wk.db.st = "null"
       THEN /\ Answer("worker.clear", NoQuery, TRUE, 0, FALSE)
            /\ UNCHANGED <<wk, idb, pmVars>>
       ELSE IF wk.persistence = NoKey
       THEN /\ wk' = [wk EXCEPT !.db = NewDatabase]
            /\ Answer("worker.clear", NoQuery, FALSE, 0, FALSE)
            /\ UNCHANGED <<idb, pmVars>>
       ELSE /\ IdbRoom
            /\ wk' = [wk EXCEPT !.db = NewDatabase]
            /\ pm' = [pm EXCEPT ![wk.persistence] = ClearedManager(@)]
            /\ burst' = [burst EXCEPT ![wk.persistence] = NoBurst]
            /\ idb' = Enqueued(idb, Request("delete", wk.persistence, 0, "wclear",
                                          Head(toWorker).id))
            /\ toWorker' = Tail(toWorker)
            /\ ev' = Ev("worker.clear", NoQuery, "pending")
            /\ UNCHANGED replies
    /\ UNCHANGED <<initVars, store, saved, db, opens, px, settled, wtasks, hist, hook>>

\* 'clear' resumes after `await persistence.clear()`.
WorkerClearSettles(ok) ==
    /\ wk.alive
    /\ idb # <<>>
    /\ Head(idb).cont = "wclear"
    /\ IdbApply(ok)
    /\ respond(Head(idb).id, ~ok, 0)
    /\ ev' = Ev("worker.clearSettles", NoQuery, IF ok THEN "ok" ELSE "error")
    /\ UNCHANGED <<initVars, pmVars, db, opens, px, toWorker, settled, workerVars, hist, hook>>

\* case 'storageStats': with persistence the handler awaits the storage
\* estimate before it answers, else it answers zeros at once.
\* The methods handleMessage has a case for.
WorkerMethods ==
    {"init", "execute", "executeRaw", "nodeCount", "edgeCount", "export",
     "import", "clear", "storageStats", "close"}

\* A request whose method the worker has no case for, sent through the
\* proxy's send().
SendUnknown ==
    /\ Usable
    /\ db.proxy
    /\ ~sendRejects
    /\ send("bogus", NoArg)
    /\ ev' = Ev("send", NoQuery, "sent")
    /\ UNCHANGED <<initVars, idbVars, pmVars, db, opens, workerVars, hist, hook>>

\* default: respond(id, undefined, `Unknown method: ${method}`)
WorkerDefault ==
    /\ wk.alive
    /\ wk.build \in Builds
    /\ toWorker # <<>>
    /\ Head(toWorker).method \notin WorkerMethods
    /\ Answer("worker.default", NoQuery, TRUE, 0, FALSE)
    /\ UNCHANGED <<initVars, idbVars, pmVars, db, opens, px, settled, wk, wtasks,
                   hist, hook>>

WorkerStorageStats ==
    /\ Takes({"storageStats"})
    /\ IF wk.persistence = NoKey
       THEN /\ Answer("worker.storageStats", NoQuery, FALSE, 0, FALSE)
            /\ UNCHANGED wtasks
       ELSE /\ wtasks' = wtasks \cup {Head(toWorker).id}
            /\ toWorker' = Tail(toWorker)
            /\ ev' = Ev("worker.storageStats", NoQuery, "pending")
            /\ UNCHANGED replies
    /\ UNCHANGED <<initVars, idbVars, pmVars, db, opens, px, settled, wk, hist, hook>>

\* 'storageStats' resumes after `await persistence.storageStats()`.
WorkerStatsSettles(id) ==
    /\ wk.alive
    /\ id \in wtasks
    /\ wtasks' = wtasks \ {id}
    /\ respond(id, FALSE, 0)
    /\ ev' = Ev("worker.storageStats", NoQuery, "ok")
    /\ UNCHANGED <<initVars, idbVars, pmVars, db, opens, px, toWorker, settled, wk, hist, hook>>

\* The end of case 'close': persistence = null (after a flush);
\* if (db) { db.free(); db = null }
WorkerReleased(w, flushed) ==
    [w EXCEPT !.persistence = IF flushed THEN NoKey ELSE @, !.db = NullHandle]

\* case 'close': if (persistence && db) { await persistence.flush(...);
\* persistence = null }, then the release, then respond(id).  flush()
\* cancels the timer and, if dirty, clears dirty and awaits
\* save(getSnapshot()).
WorkerClose ==
    /\ Takes({"close"})
    /\ LET k == wk.persistence
           snap == ExportSnapshot(wk.db)
       IN  IF k = NoKey \/ wk.db.st = "null"
           THEN /\ wk' = WorkerReleased(wk, FALSE)
                /\ Answer("worker.close", NoQuery, FALSE, 0, FALSE)
                /\ UNCHANGED <<idb, pmVars>>
           ELSE /\ burst' = [burst EXCEPT ![k] =
                                [NoBurst EXCEPT !.last = IF pm[k].dirty /\ snap.ok
                                                         THEN snap.val ELSE burst[k].last]]
                /\ IF ~pm[k].dirty
                   THEN /\ pm' = [pm EXCEPT ![k].timer = NoTimer]
                        /\ wk' = WorkerReleased(wk, TRUE)
                        /\ Answer("worker.close", NoQuery, FALSE, 0, FALSE)
                        /\ UNCHANGED idb
                   ELSE IF ~snap.ok
                   THEN /\ pm' = [pm EXCEPT ![k].timer = NoTimer, ![k].dirty = FALSE]
                        /\ Answer("worker.close", NoQuery, TRUE, 0, snap.uaf)
                        /\ UNCHANGED <<wk, idb>>
                   ELSE /\ IdbRoom
                        /\ pm' = [pm EXCEPT ![k].timer = NoTimer, ![k].dirty = FALSE]
                        /\ idb' = Enqueued(idb, Request("put", k, snap.val, "wclose",
                                                      Head(toWorker).id))
                        /\ toWorker' = Tail(toWorker)
                        /\ ev' = Ev("worker.close", NoQuery, "flushing")
                        /\ UNCHANGED <<wk, replies>>
    /\ UNCHANGED <<initVars, store, saved, db, opens, px, settled, wtasks, hist, hook>>

\* 'close' resumes after `await persistence.flush(...)`; a failed write is
\* answered with the error and releases nothing.
WorkerFlushSettles(ok) ==
    /\ wk.alive
    /\ idb # <<>>
    /\ Head(idb).cont = "wclose"
    /\ IdbApply(ok)
    /\ wk' = IF ok THEN WorkerReleased(wk, TRUE) ELSE wk
    /\ respond(Head(idb).id, ~ok, 0)
    /\ ev' = Ev("worker.closeSettles", NoQuery, IF ok THEN "ok" ELSE "error")
    /\ UNCHANGED <<initVars, pmVars, db, opens, px, toWorker, settled, wtasks, hist, hook>>

\* A storage request of a terminated worker completes; nothing awaits it.
OrphanSettles(ok) ==
    /\ idb # <<>>
    /\ Head(idb).cont = "orphan"
    /\ IdbApply(ok)
    /\ ev' = Ev("orphanSettles", NoQuery, IF ok THEN "ok" ELSE "error")
    /\ UNCHANGED <<initVars, pmVars, db, opens, proxyVars, workerVars, hist, hook>>

(***************************************************************************)
(* worker-proxy.test.ts: a WorkerProxy driven directly, over a mock worker *)
(* that answers the requests posted to it in any order.                    *)
(***************************************************************************)
\* The calls the tests make between init() and close().
ProxyMethods == {"execute", "nodeCount"}
\* proxy = new WorkerProxy(); proxy.init({ persist: 'test' })
ProxyInit ==
    /\ db.mode = "none"
    /\ px = NoProxy
    /\ opens < MaxOpens
    /\ opens' = opens + 1
    /\ proxyInit("a", "mock")
    /\ ev' = Ev("proxy.init", NoQuery, "sent")
    /\ UNCHANGED <<initVars, idbVars, pmVars, db, hist, hook>>

\* proxy.execute(...), proxy.nodeCount(), ...: return this.send(method, args)
ProxyCall(method) ==
    /\ db.mode = "none"
    /\ IF sendRejects
       THEN /\ ev' = Ev("proxy.call", NoQuery, "Worker not initialized")
            /\ UNCHANGED proxyVars
       ELSE /\ send(method, NoArg)
            /\ ev' = Ev("proxy.call", NoQuery, "sent")
    /\ UNCHANGED <<initVars, idbVars, pmVars, db, opens, workerVars, hist, hook>>

\* proxy.close(): await this.send('close'); the rest runs when the reply is
\* delivered.
ProxyClose ==
    /\ db.mode = "none"
    /\ opens > 0
    /\ \A i \in RequestIds : settled[i].method # "close"
    /\ IF sendRejects
       THEN /\ ev' = Ev("proxy.close", NoQuery, "Worker not initialized")
            /\ UNCHANGED proxyVars
       ELSE /\ send("close", NoArg)
            /\ ev' = Ev("proxy.close", NoQuery, "sent")
    /\ UNCHANGED <<initVars, idbVars, pmVars, db, opens, workerVars, hist, hook>>

RemoveAt(q, i) == [j \in 1..(Len(q) - 1) |-> IF j < i THEN q[j] ELSE q[j + 1]]

\* respondToLast(result, error), for any request not yet answered; the
\* result or error message tells which request it answers.
MockReply(i, err) ==
    /\ wk.alive
    /\ wk.build = "mock"
    /\ i \in 1..Len(toWorker)
    /\ replies' = Append(replies, [id |-> toWorker[i].id, err |-> err,
                                   val |-> toWorker[i].id, delivered |-> FALSE])
    /\ toWorker' = RemoveAt(toWorker, i)
    /\ ev' = Ev("mock.respond", NoQuery, IF err THEN "error" ELSE "ok")
    /\ UNCHANGED <<initVars, idbVars, pmVars, db, opens, px, settled, workerVars, hist, hook>>

\* The mock worker posts one more response for a request it has answered
\* already, with the same or the opposite outcome.
MockReplyAgain(i, err) ==
    /\ wk.alive
    /\ wk.build = "mock"
    /\ i \in 1..Len(replies)
    /\ Len(replies) < MaxReplies
    /\ \A j \in 1..Len(replies) : j # i => replies[j].id # replies[i].id
    /\ replies' = Append(replies, [replies[i] EXCEPT !.err = err, !.delivered = FALSE])
    /\ ev' = Ev("mock.respond", NoQuery, "again")
    /\ UNCHANGED <<initVars, idbVars, pmVars, db, opens, px, toWorker, settled,
                   workerVars, hist, hook>>

(***************************************************************************)
(* The PersistenceManager driven directly, as its tests do: one manager    *)
(* per key, each method with the continuation of the promise it awaits.    *)
(***************************************************************************)
\* The arrays the tests pass to save(): an empty one and a non-empty one.
SaveInputs == {0, 3}

\* new PersistenceManager(key)
PmNew(k) ==
    /\ db.mode = "none"
    /\ px = NoProxy
    /\ pm[k].owner = "none"
    /\ pm' = [pm EXCEPT ![k] = [NewManager EXCEPT !.owner = "test"]]
    /\ ev' = EvPm("pm.new", k, "ok")
    /\ UNCHANGED <<initVars, idbVars, burst, db, opens, proxyVars, workerVars, hist, hook>>

\* pm.save(bytes): store.put(record), awaited.
PmSave(k, bytes) ==
    /\ pm[k].owner = "test"
    /\ IdbRoom
    /\ idb' = Enqueued(idb, Request("put", k, bytes, "pm.save", 0))
    /\ ev' = EvPm("pm.save", k, "sent")
    /\ UNCHANGED <<initVars, store, saved, pmVars, db, opens, proxyVars, workerVars, hist, hook>>

PmSaveSettles(ok) ==
    /\ idb # <<>>
    /\ Head(idb).cont = "pm.save"
    /\ IdbApply(ok)
    /\ ev' = EvPm("pm.saved", Head(idb).key, IF ok THEN "ok" ELSE "error")
    /\ UNCHANGED <<initVars, pmVars, db, opens, proxyVars, workerVars, hist, hook>>

\* pm.load(): store.get(this.key), awaited.
PmLoad(k) ==
    /\ pm[k].owner = "test"
    /\ IdbRoom
    /\ idb' = Enqueued(idb, Request("get", k, 0, "pm.load", 0))
    /\ ev' = EvPm("pm.load", k, "sent")
    /\ UNCHANGED <<initVars, store, saved, pmVars, db, opens, proxyVars, workerVars, hist, hook>>

\* load() resumes with the record found: return record?.snapshot ?? null
PmLoadSettles(ok) ==
    /\ idb # <<>>
    /\ Head(idb).cont = "pm.load"
    /\ IdbApply(ok)
    /\ LET k == Head(idb).key
       IN  /\ UNCHANGED hook
           /\ hist' = IF ok THEN [hist EXCEPT !.loaded =
                                    [key |-> k, val |-> LoadResult(store[k])]]
                      ELSE hist
           /\ ev' = EvPm("pm.loaded", k, IF ok THEN "ok" ELSE "error")
    /\ UNCHANGED <<initVars, pmVars, db, opens, proxyVars, workerVars>>

\* pm.scheduleSave(getSnapshot)
PmScheduleSave(k) ==
    /\ pm[k].owner = "test"
    /\ scheduleSave(k)
    /\ ev' = EvPm("pm.scheduleSave", k, "ok")
    /\ UNCHANGED <<initVars, idbVars, db, opens, proxyVars, workerVars, hist, hook>>

\* Variant: flush() leaves the armed timer running.
FlushedTimer_StillArmed(k) == pm[k].timer

\* flush(): if (this.timer !== null) { clearTimeout(this.timer); this.timer = null }
FlushedTimer(k) == NoTimer

\* Variant: flush() saves whether or not the manager is dirty.
FlushWrites_Always(k) == TRUE

\* flush(): if (this.dirty) { ... }
FlushWrites(k) == pm[k].dirty

\* pm.flush(getSnapshot): the timer is cancelled; a dirty manager is marked
\* clean, getSnapshot() is called and the save is awaited.
PmFlush(k) ==
    /\ pm[k].owner = "test"
    /\ LET snap == ExportSnapshot(SnapshotSource(k))
       IN  IF ~FlushWrites(k)
           THEN /\ pm' = [pm EXCEPT ![k].timer = FlushedTimer(k)]
                /\ ev' = EvPm("pm.flush", k, "clean")
                /\ UNCHANGED <<idb, burst>>
           ELSE /\ IdbRoom
                /\ pm' = [pm EXCEPT ![k].timer = FlushedTimer(k), ![k].dirty = FALSE]
                /\ idb' = Enqueued(idb, Request("put", k, snap.val, "pm.flush", 0))
                /\ burst' = [burst EXCEPT ![k].open = FALSE, ![k].snaps = @ + 1,
                                          ![k].puts = @ + 1, ![k].last = snap.val]
                /\ ev' = EvPm("pm.flush", k, "flushing")
    /\ UNCHANGED <<initVars, store, saved, db, opens, proxyVars, workerVars, hist, hook>>

PmFlushSettles(ok) ==
    /\ idb # <<>>
    /\ Head(idb).cont = "pm.flush"
    /\ IdbApply(ok)
    /\ ev' = EvPm("pm.flushed", Head(idb).key, IF ok THEN "ok" ELSE "error")
    /\ UNCHANGED <<initVars, pmVars, db, opens, proxyVars, workerVars, hist, hook>>

\* pm.clear(): the timer is cancelled, dirty is reset, store.delete(this.key)
\* is awaited.
PmClear(k) ==
    /\ pm[k].owner = "test"
    /\ IdbRoom
    /\ pm' = [pm EXCEPT ![k] = ClearedManager(@)]
    /\ burst' = [burst EXCEPT ![k].open = FALSE]
    /\ idb' = Enqueued(idb, Request("delete", k, 0, "pm.clear", 0))
    /\ ev' = EvPm("pm.clear", k, "sent")
    /\ UNCHANGED <<initVars, store, saved, db, opens, proxyVars, workerVars, hist, hook>>

PmClearSettles(ok) ==
    /\ idb # <<>>
    /\ Head(idb).cont = "pm.clear"
    /\ IdbApply(ok)
    /\ ev' = EvPm("pm.cleared", Head(idb).key, IF ok THEN "ok" ELSE "error")
    /\ UNCHANGED <<initVars, pmVars, db, opens, proxyVars, workerVars, hist, hook>>

(***************************************************************************)
(* react.ts and vue.ts: useGrafeo().  An instance is "creating" while its  *)
(* create() is pending, "open" once create() resolved, "closing" from the  *)
(* call of close() (which sets the closed flag at once) until close()      *)
(* settles.                                                                *)
(***************************************************************************)
\* created.close() / instance?.close() / db.value?.close(): close() does
\* nothing on an instance it was already called on.
CloseCalled(inst, i) ==
    IF i # 0 /\ inst[i] = "open" THEN [inst EXCEPT ![i] = "closing"] ELSE inst

\* How often React runs the effect when the component mounts: once, and
\* under <StrictMode> in development effect, cleanup, effect.
EffectRuns(strict) == IF strict THEN 2 ELSE 1

\* React renders the component and runs the effect of useGrafeo():
\*   mountedRef.current = true; let instance = null; GrafeoDB.create(options)
\* Under StrictMode the cleanup of the first run follows at once
\* (mountedRef.current = false; instance is still null) and the effect runs
\* again, with the same ref and a new closure.
ReactMount(strict) ==
    /\ hook.phase = "new"
    /\ EffectRuns(strict) <= MaxInstances
    /\ hook' = [hook EXCEPT !.fw = "react", !.phase = "mounted",
                            !.mountedRef = TRUE,
                            !.active = EffectRuns(strict),
                            !.inst = [i \in Instances |->
                                        IF i <= EffectRuns(strict)
                                        THEN "creating" ELSE "none"]]
    /\ ev' = Ev("useGrafeo.effect", NoQuery, IF strict THEN "twice" ELSE "once")
    /\ UNCHANGED <<initVars, idbVars, pmVars, db, opens, proxyVars, workerVars,
                   hist>>

\* The create() of effect run i settles and its reaction runs:
\*   .then((created) => { instance = created;
\*       if (mountedRef.current) { setDb(created); setLoading(false) }
\*       else created.close() })
\*   .catch((err) => { if (mountedRef.current) { setError(...); setLoading(false) } })
ReactCreateSettles(i, ok) ==
    /\ hook.fw = "react"
    /\ hook.inst[i] = "creating"
    /\ hook' =
        IF ok
        THEN IF hook.mountedRef
             THEN [hook EXCEPT !.inst[i] = "open", !.db = i, !.loading = FALSE]
             ELSE [hook EXCEPT !.inst = CloseCalled([@ EXCEPT ![i] = "open"], i)]
        ELSE IF hook.mountedRef
             THEN [hook EXCEPT !.inst[i] = "createFailed", !.error = TRUE,
                               !.loading = FALSE]
             ELSE [hook EXCEPT !.inst[i] = "createFailed"]
    /\ ev' = Ev("useGrafeo.created", NoQuery, IF ok THEN "ok" ELSE "error")
    /\ UNCHANGED <<initVars, idbVars, pmVars, db, opens, proxyVars, workerVars,
                   hist>>

\* React unmounts the component and runs the cleanup of the last effect run:
\*   mountedRef.current = false; instance?.close()
\* where instance is that run's variable, null until its create() resolved.
ReactUnmount ==
    /\ hook.fw = "react"
    /\ hook.phase = "mounted"
    /\ hook' = [hook EXCEPT !.phase = "unmounted", !.mountedRef = FALSE,
                            !.inst = CloseCalled(@, hook.active)]
    /\ ev' = Ev("useGrafeo.cleanup", NoQuery, "ok")
    /\ UNCHANGED <<initVars, idbVars, pmVars, db, opens, proxyVars, workerVars,
                   hist>>

\* Vue runs setup(), which calls useGrafeo():
\*   db = ref(null); loading = ref(true); GrafeoDB.create(options)...;
\*   onUnmounted(() => { db.value?.close() })
VueSetup ==
    /\ hook.phase = "new"
    /\ hook' = [hook EXCEPT !.fw = "vue", !.phase = "mounted",
                            !.inst[1] = "creating"]
    /\ ev' = Ev("useGrafeo.setup", NoQuery, "ok")
    /\ UNCHANGED <<initVars, idbVars, pmVars, db, opens, proxyVars, workerVars,
                   hist>>

\* The create() settles and its reaction runs:
\*   .then((created) => { db.value = created; loading.value = false })
\*   .catch((err) => { error.value = ...; loading.value = false })
VueCreateSettles(ok) ==
    /\ hook.fw = "vue"
    /\ hook.inst[1] = "creating"
    /\ hook' = IF ok
               THEN [hook EXCEPT !.inst[1] = "open", !.db = 1, !.loading = FALSE]
               ELSE [hook EXCEPT !.inst[1] = "createFailed", !.error = TRUE,
                                 !.loading = FALSE]
    /\ ev' = Ev("useGrafeo.created", NoQuery, IF ok THEN "ok" ELSE "error")
    /\ UNCHANGED <<initVars, idbVars, pmVars, db, opens, proxyVars, workerVars,
                   hist>>

\* Vue unmounts the component: db.value?.close()
VueUnmount ==
    /\ hook.fw = "vue"
    /\ hook.phase = "mounted"
    /\ hook' = [hook EXCEPT !.phase = "unmounted",
                            !.inst = CloseCalled(@, hook.db)]
    /\ ev' = Ev("useGrafeo.onUnmounted", NoQuery, "ok")
    /\ UNCHANGED <<initVars, idbVars, pmVars, db, opens, proxyVars, workerVars,
                   hist>>

\* The close() a hook called, and whose promise it dropped, settles.
HookCloseSettles(i, ok) ==
    /\ hook.inst[i] = "closing"
    /\ hook' = [hook EXCEPT !.inst[i] = IF ok THEN "closed" ELSE "closeFailed"]
    /\ ev' = Ev("useGrafeo.closeSettles", NoQuery, IF ok THEN "ok" ELSE "error")
    /\ UNCHANGED <<initVars, idbVars, pmVars, db, opens, proxyVars, workerVars,
                   hist>>

(***************************************************************************)
(* svelte.ts: createGrafeo().  hook.instance and hook.db are the closure's *)
(* `instance` and `currentDb`, hook.subs is dbSubscribers.size, hook.left  *)
(* records that a subscriber has left the db store empty.                  *)
(***************************************************************************)
\* createGrafeo(options): the closure's variables, then
\*   GrafeoDB.create(options).then(...).catch(...)
SvelteCreate ==
    /\ hook.phase = "new"
    /\ hook' = [hook EXCEPT !.fw = "svelte", !.phase = "mounted",
                            !.inst[1] = "creating"]
    /\ ev' = Ev("createGrafeo", NoQuery, "ok")
    /\ UNCHANGED <<initVars, idbVars, pmVars, db, opens, proxyVars, workerVars,
                   hist>>

\* The create() settles and its reaction runs:
\*   .then((created) => { instance = created; currentDb = created;
\*                        currentLoading = false; notifyDb(); notifyLoading() })
\*   .catch((err) => { currentError = ...; currentLoading = false; ... })
SvelteCreateSettles(ok) ==
    /\ hook.fw = "svelte"
    /\ hook.inst[1] = "creating"
    /\ hook' = IF ok
               THEN [hook EXCEPT !.inst[1] = "open", !.instance = 1, !.db = 1,
                                 !.loading = FALSE]
               ELSE [hook EXCEPT !.inst[1] = "createFailed", !.error = TRUE,
                                 !.loading = FALSE]
    /\ ev' = Ev("createGrafeo.created", NoQuery, IF ok THEN "ok" ELSE "error")
    /\ UNCHANGED <<initVars, idbVars, pmVars, db, opens, proxyVars, workerVars,
                   hist>>

\* db.subscribe(fn): dbSubscribers.add(fn); fn(currentDb)
SvelteSubscribe ==
    /\ hook.fw = "svelte"
    /\ hook.subs < MaxSubscribers
    /\ hook' = [hook EXCEPT !.subs = @ + 1]
    /\ ev' = Ev("db.subscribe", NoQuery, IF hook.db = 0 THEN "null" ELSE "instance")
    /\ UNCHANGED <<initVars, idbVars, pmVars, db, opens, proxyVars, workerVars,
                   hist>>

\* The function subscribe() returned:
\*   dbSubscribers.delete(fn);
\*   if (dbSubscribers.size === 0 && instance) {
\*     instance.close(); instance = null; currentDb = null }
SvelteUnsubscribe ==
    /\ hook.fw = "svelte"
    /\ hook.subs > 0
    /\ hook' = IF hook.subs = 1 /\ hook.instance # 0
               THEN [hook EXCEPT !.subs = 0, !.left = TRUE,
                                 !.inst = CloseCalled(@, hook.instance),
                                 !.instance = 0, !.db = 0]
               ELSE [hook EXCEPT !.subs = @ - 1, !.left = @ \/ hook.subs = 1]
    /\ ev' = Ev("db.unsubscribe", NoQuery, "ok")
    /\ UNCHANGED <<initVars, idbVars, pmVars, db, opens, proxyVars, workerVars,
                   hist>>

\* close(): if (instance) { await instance.close(); ...   The await is of
\* the flush when this call is the one that closes, and of nothing when
\* close() had been called on the instance before.
SvelteClose ==
    /\ hook.fw = "svelte"
    /\ hook.closePc = "none"
    /\ hook' = IF hook.instance = 0 THEN hook
               ELSE [hook EXCEPT !.inst = CloseCalled(@, hook.instance),
                                 !.closePc = IF hook.inst[hook.instance] = "open"
                                             THEN "awaitClose" ELSE "awaitNoop"]
    /\ ev' = Ev("createGrafeo.close", NoQuery,
                IF hook.instance = 0 THEN "ok" ELSE "pending")
    /\ UNCHANGED <<initVars, idbVars, pmVars, db, opens, proxyVars, workerVars,
                   hist>>

\* close() resumes after the await: instance = null; currentDb = null;
\* notifyDb().  When instance.close() rejected, close() rejects there.
SvelteCloseResumes ==
    /\ hook.fw = "svelte"
    /\ \/ hook.closePc = "awaitNoop"
       \/ hook.closePc = "awaitClose" /\ hook.inst[1] \in {"closed", "closeFailed"}
    /\ hook' = IF hook.closePc = "awaitClose" /\ hook.inst[1] = "closeFailed"
               THEN [hook EXCEPT !.closePc = "none"]
               ELSE [hook EXCEPT !.closePc = "none", !.instance = 0, !.db = 0]
    /\ ev' = Ev("createGrafeo.close", NoQuery,
                IF hook.closePc = "awaitClose" /\ hook.inst[1] = "closeFailed"
                THEN "error" ELSE "ok")
    /\ UNCHANGED <<initVars, idbVars, pmVars, db, opens, proxyVars, workerVars,
                   hist>>

(***************************************************************************)
(* Specifications.                                                         *)
(***************************************************************************)
\* The snapshots the modelled callers pass to import().
ImportInputs == {0, MaxNodes, BadSnapshot}

\* One GrafeoDB at a time in direct mode, with or without persistence.
DirectNext ==
    \/ \E p \in {NoKey, "a"} : Create(FALSE, p, "none")
    \/ \E ok \in BOOLEAN : InitSettle(ok)
    \/ CreateAfterInit
    \/ \E ok \in BOOLEAN : CreateLoadSettles(ok)
    \/ \E q \in ExecQueries : Execute(q)
    \/ \E q \in RawQueries : ExecuteRaw(q)
    \/ NodeCount
    \/ EdgeCount
    \/ StorageStats
    \/ Export
    \/ \E s \in ImportInputs : Import(s)
    \/ Clear
    \/ \E ok \in BOOLEAN : ClearSettles(ok)
    \/ ChangesSince
    \/ Close
    \/ \E ok \in BOOLEAN : CloseFlushSettles(ok)
    \/ \E k \in Keys : TimerFire(k)
    \/ \E ok \in BOOLEAN : TimerSaveSettles(ok)
    \/ Tick

SpecDirect == Init /\ [][DirectNext]_vars

\* Callers racing on ensureWasmInitialized(), among them one create().
InitNext ==
    \/ \E c \in Callers : CallerEnsure(c)
    \/ \E ok \in BOOLEAN : InitSettle(ok)
    \/ \E c \in Callers : CallerResume(c)
    \/ Create(FALSE, NoKey, "none")
    \/ CreateAfterInit

SpecInit == Init /\ [][InitNext]_vars

\* The WorkerProxy of the tests: calls, replies in any order, faults.
ProxyNext ==
    \/ ProxyInit
    \/ \E m \in ProxyMethods : ProxyCall(m)
    \/ ProxyClose
    \/ \E i \in 1..MaxRequests, err \in BOOLEAN : MockReply(i, err)
    \/ \E i \in 1..MaxRequests : OnMessage(i)
    \/ OnError

SpecProxy == Init /\ [][ProxyNext]_vars

\* The WorkerProxy over a mock worker that also answers a request twice,
\* with faults at any moment.
DuplicateNext ==
    \/ ProxyInit
    \/ ProxyCall("nodeCount")
    \/ \E i \in 1..MaxRequests, err \in BOOLEAN : MockReply(i, err)
    \/ \E i \in 1..MaxReplies, err \in BOOLEAN : MockReplyAgain(i, err)
    \/ \E i \in 1..MaxReplies : OnMessage(i)
    \/ OnError

SpecDuplicate == Init /\ [][DuplicateNext]_vars

\* One GrafeoDB at a time in worker mode, over either build of the worker.
\* Worker faults are the subject of SpecProxy.
WorkerNext ==
    \/ \E p \in {NoKey, "a"}, b \in Builds : Create(TRUE, p, b)
    \/ \E q \in ExecQueries : Execute(q)
    \/ \E q \in RawQueries : ExecuteRaw(q)
    \/ NodeCount
    \/ EdgeCount
    \/ StorageStats
    \/ Export
    \/ \E s \in ImportInputs : Import(s)
    \/ Clear
    \/ ChangesSince
    \/ Close
    \/ \E i \in 1..MaxRequests : OnMessage(i)
    \/ \E ok \in BOOLEAN : WorkerInit(ok)
    \/ \E ok \in BOOLEAN : WorkerLoadSettles(ok)
    \/ WorkerExecute
    \/ WorkerExecuteRaw
    \/ WorkerNodeCount
    \/ WorkerEdgeCount
    \/ WorkerExport
    \/ WorkerImport
    \/ WorkerClear
    \/ \E ok \in BOOLEAN : WorkerClearSettles(ok)
    \/ WorkerStorageStats
    \/ \E id \in RequestIds : WorkerStatsSettles(id)
    \/ WorkerClose
    \/ \E ok \in BOOLEAN : WorkerFlushSettles(ok)
    \/ \E ok \in BOOLEAN : OrphanSettles(ok)
    \/ \E k \in Keys : TimerFire(k)
    \/ \E ok \in BOOLEAN : TimerSaveSettles(ok)
    \/ Tick

SpecWorker == Init /\ [][WorkerNext]_vars

\* The lifecycle of one GrafeoDB at a time in either mode: create, a write,
\* a read, isOpen, close, and create again after close() has resolved.
LifecycleQueries == {"Q_INSERT", "Q_MATCH"}

LifecycleNext ==
    \/ \E p \in {NoKey, "a"} : Create(FALSE, p, "none")
    \/ \E p \in {NoKey, "a"}, b \in Builds : Create(TRUE, p, b)
    \/ \E ok \in BOOLEAN : InitSettle(ok)
    \/ CreateAfterInit
    \/ \E ok \in BOOLEAN : CreateLoadSettles(ok)
    \/ \E q \in LifecycleQueries : Execute(q)
    \/ NodeCount
    \/ IsOpen
    \/ Close
    \/ \E ok \in BOOLEAN : CloseFlushSettles(ok)
    \/ \E i \in 1..MaxRequests : OnMessage(i)
    \/ \E ok \in BOOLEAN : WorkerInit(ok)
    \/ \E ok \in BOOLEAN : WorkerLoadSettles(ok)
    \/ WorkerExecute
    \/ WorkerNodeCount
    \/ WorkerClose
    \/ \E ok \in BOOLEAN : WorkerFlushSettles(ok)
    \/ \E k \in Keys : TimerFire(k)
    \/ \E ok \in BOOLEAN : TimerSaveSettles(ok)
    \/ Tick

SpecLifecycle == Init /\ [][LifecycleNext]_vars

\* One GrafeoDB at a time in either mode with the operations that touch the
\* engine handle: create, a write, import, clear, close.
ModeNext ==
    \/ \E p \in {NoKey, "a"} : Create(FALSE, p, "none")
    \/ \E p \in {NoKey, "a"}, b \in Builds : Create(TRUE, p, b)
    \/ \E ok \in BOOLEAN : InitSettle(ok)
    \/ CreateAfterInit
    \/ \E ok \in BOOLEAN : CreateLoadSettles(ok)
    \/ Execute("Q_INSERT")
    \/ \E s \in {0, BadSnapshot} : Import(s)
    \/ Clear
    \/ \E ok \in BOOLEAN : ClearSettles(ok)
    \/ Close
    \/ \E ok \in BOOLEAN : CloseFlushSettles(ok)
    \/ \E i \in 1..MaxRequests : OnMessage(i)
    \/ \E ok \in BOOLEAN : WorkerInit(ok)
    \/ \E ok \in BOOLEAN : WorkerLoadSettles(ok)
    \/ WorkerExecute
    \/ WorkerImport
    \/ WorkerClear
    \/ \E ok \in BOOLEAN : WorkerClearSettles(ok)
    \/ WorkerClose
    \/ \E ok \in BOOLEAN : WorkerFlushSettles(ok)
    \/ \E k \in Keys : TimerFire(k)
    \/ \E ok \in BOOLEAN : TimerSaveSettles(ok)
    \/ Tick

SpecModes == Init /\ [][ModeNext]_vars

\* The worker answering requests: handlers that succeed, handlers that
\* throw (a rejected query, a rejected snapshot, a failed storage request),
\* handlers that await, and a method it does not know.
RequestNext ==
    \/ \E p \in {NoKey, "a"}, b \in Builds : Create(TRUE, p, b)
    \/ \E q \in {"Q_INSERT", "Q_INVALID"} : Execute(q)
    \/ \E s \in {0, BadSnapshot} : Import(s)
    \/ Clear
    \/ StorageStats
    \/ Close
    \/ SendUnknown
    \/ \E i \in 1..MaxRequests : OnMessage(i)
    \/ \E ok \in BOOLEAN : WorkerInit(ok)
    \/ \E ok \in BOOLEAN : WorkerLoadSettles(ok)
    \/ WorkerExecute
    \/ WorkerImport
    \/ WorkerClear
    \/ \E ok \in BOOLEAN : WorkerClearSettles(ok)
    \/ WorkerStorageStats
    \/ \E id \in RequestIds : WorkerStatsSettles(id)
    \/ WorkerClose
    \/ \E ok \in BOOLEAN : WorkerFlushSettles(ok)
    \/ WorkerDefault
    \/ \E ok \in BOOLEAN : OrphanSettles(ok)
    \/ \E k \in Keys : TimerFire(k)
    \/ \E ok \in BOOLEAN : TimerSaveSettles(ok)
    \/ Tick

SpecRequests == Init /\ [][RequestNext]_vars

\* One PersistenceManager driven directly through all of its methods.
ManagerNext ==
    \/ PmNew("a")
    \/ \E b \in SaveInputs : PmSave("a", b)
    \/ \E ok \in BOOLEAN : PmSaveSettles(ok)
    \/ PmLoad("a")
    \/ \E ok \in BOOLEAN : PmLoadSettles(ok)
    \/ PmScheduleSave("a")
    \/ PmFlush("a")
    \/ \E ok \in BOOLEAN : PmFlushSettles(ok)
    \/ PmClear("a")
    \/ \E ok \in BOOLEAN : PmClearSettles(ok)
    \/ TimerFire("a")
    \/ \E ok \in BOOLEAN : TimerSaveSettles(ok)
    \/ Tick

SpecManager == Init /\ [][ManagerNext]_vars

\* One PersistenceManager whose storage does not fail and whose clear() is
\* not called: scheduleSave, flush and save at any moment.  Time passes, a
\* due timer fires and a storage request completes (the host's event loop);
\* the room in the request queue is a bound of the model, so the timer
\* callback is not held up by it for ever.
SaveNext ==
    \/ PmNew("a")
    \/ PmScheduleSave("a")
    \/ PmFlush("a")
    \/ \E b \in SaveInputs : PmSave("a", b)
    \/ PmSaveSettles(TRUE)
    \/ PmFlushSettles(TRUE)
    \/ TimerFire("a")
    \/ TimerSaveSettles(TRUE)
    \/ Tick

\* One persistent GrafeoDB at a time in direct mode whose storage does not
\* fail and whose clear() is not called: writes, an import, close, reopen,
\* with the timer's write and the flush's write in flight together.
FreshNext ==
    \/ Create(FALSE, "a", "none")
    \/ InitSettle(TRUE)
    \/ CreateAfterInit
    \/ CreateLoadSettles(TRUE)
    \/ \E q \in {"Q_INSERT", "Q_MATCH_INSERT"} : Execute(q)
    \/ Import(0)
    \/ Close
    \/ CloseFlushSettles(TRUE)
    \/ TimerFire("a")
    \/ TimerSaveSettles(TRUE)
    \/ Tick

SpecFreshness == Init /\ [][FreshNext]_vars

SpecSaves ==
    /\ Init /\ [][SaveNext]_vars
    /\ WF_vars(Tick)
    /\ SF_vars(TimerFire("a"))
    /\ WF_vars(TimerSaveSettles(TRUE))
    /\ WF_vars(PmFlushSettles(TRUE))
    /\ WF_vars(PmSaveSettles(TRUE))

\* Two PersistenceManagers with different keys: the manager of "a" goes
\* through all of its methods while the manager of "b" saves, loads and
\* clears.
IsolationNext ==
    \/ \E k \in Keys : PmNew(k)
    \/ \E k \in Keys, b \in SaveInputs : PmSave(k, b)
    \/ \E ok \in BOOLEAN : PmSaveSettles(ok)
    \/ \E k \in Keys : PmLoad(k)
    \/ \E ok \in BOOLEAN : PmLoadSettles(ok)
    \/ PmScheduleSave("a")
    \/ PmFlush("a")
    \/ \E ok \in BOOLEAN : PmFlushSettles(ok)
    \/ \E k \in Keys : PmClear(k)
    \/ \E ok \in BOOLEAN : PmClearSettles(ok)
    \/ TimerFire("a")
    \/ \E ok \in BOOLEAN : TimerSaveSettles(ok)
    \/ Tick

SpecIsolation == Init /\ [][IsolationNext]_vars

\* Accepted and rejected queries through execute() and executeRaw() in
\* either mode, with and without persistence.
RejectionQueries == {"Q_INSERT", "Q_INVALID", "Q_SET"}

RejectionNext ==
    \/ \E p \in {NoKey, "a"} : Create(FALSE, p, "none")
    \/ \E p \in {NoKey, "a"}, b \in Builds : Create(TRUE, p, b)
    \/ \E ok \in BOOLEAN : InitSettle(ok)
    \/ CreateAfterInit
    \/ \E ok \in BOOLEAN : CreateLoadSettles(ok)
    \/ \E q \in RejectionQueries : Execute(q)
    \/ \E q \in RejectionQueries : ExecuteRaw(q)
    \/ \E i \in 1..MaxRequests : OnMessage(i)
    \/ \E ok \in BOOLEAN : WorkerInit(ok)
    \/ \E ok \in BOOLEAN : WorkerLoadSettles(ok)
    \/ WorkerExecute
    \/ WorkerExecuteRaw
    \/ \E k \in Keys : TimerFire(k)
    \/ \E ok \in BOOLEAN : TimerSaveSettles(ok)
    \/ Tick

SpecRejection == Init /\ [][RejectionNext]_vars

\* One component that uses useGrafeo(), in React or in Vue, or one set of
\* stores made by createGrafeo().
HookNext ==
    \/ SvelteCreate
    \/ \E ok \in BOOLEAN : SvelteCreateSettles(ok)
    \/ SvelteSubscribe
    \/ SvelteUnsubscribe
    \/ SvelteClose
    \/ SvelteCloseResumes
    \/ \E strict \in BOOLEAN : ReactMount(strict)
    \/ \E i \in Instances, ok \in BOOLEAN : ReactCreateSettles(i, ok)
    \/ ReactUnmount
    \/ VueSetup
    \/ \E ok \in BOOLEAN : VueCreateSettles(ok)
    \/ VueUnmount
    \/ \E i \in Instances, ok \in BOOLEAN : HookCloseSettles(i, ok)

SpecHooks == Init /\ [][HookNext]_vars

\* A pending create() or close() settles and the reaction attached to it
\* runs; nothing makes a component unmount.
SpecHooksLive ==
    /\ SpecHooks
    /\ \A i \in Instances : WF_vars(\E ok \in BOOLEAN : ReactCreateSettles(i, ok))
    /\ WF_vars(\E ok \in BOOLEAN : VueCreateSettles(ok))
    /\ WF_vars(\E ok \in BOOLEAN : SvelteCreateSettles(ok))
    /\ WF_vars(SvelteCloseResumes)
    /\ \A i \in Instances : WF_vars(\E ok \in BOOLEAN : HookCloseSettles(i, ok))

\* The classifier applied to one text.  The texts are put together from
\* what may stand before the first word, a first word and what may follow
\* it.
Leads ==
    { <<>>, <<" ">>, <<"\n", "\t">>, <<"\r", " ", "\f">>, <<"(">>,
      <<"x", " ">> }

Words ==
    MutatingKeywords \cup
    { <<"i","n","s","e","r","t">>, <<"S","e","t">>, <<"d","R","o","P">>,
      <<"m","e","r","g","e">>, <<"C","r","e","a","t","e">>,
      <<"M","A","T","C","H">>, <<"I","N","S","E","R">>,
      <<"U","N","S","E","T">>, <<"R","E","T","U","R","N">>, <<>> }

Tails ==
    { <<>>, <<" ", "(", "n", ")">>, <<"E", "D">>, <<"_", "x">>, <<"1">>,
      <<"(">>, <<";">>, <<"\n", "S", "E", "T">>, <<"-", "x">> }

Texts == {l \o w \o t : l \in Leads, w \in Words, t \in Tails}

ClassifierInit ==
    /\ NothingBuilt
    /\ \E t \in Texts : ev = [op |-> "text", q |-> t, res |-> "none", uaf |-> FALSE]

\* isMutatingQuery(query): tests the text against a fresh regular
\* expression and returns the answer; it touches nothing else.
Classify ==
    /\ ev.op \in {"text", "isMutatingQuery"}
    /\ ev' = [ev EXCEPT !.op = "isMutatingQuery",
                        !.res = IF isMutatingQuery(ev.q) THEN "true" ELSE "false"]
    /\ UNCHANGED <<initVars, idbVars, pmVars, db, opens, proxyVars, workerVars,
                   burst, hist, hook>>

ClassifierNext == Classify

SpecClassifier == ClassifierInit /\ [][ClassifierNext]_vars

\* Everything together.
Next ==
    \/ DirectNext \/ InitNext \/ ProxyNext \/ WorkerNext \/ LifecycleNext
    \/ ManagerNext \/ IsolationNext \/ DuplicateNext \/ RejectionNext
    \/ HookNext \/ ClassifierNext

Spec == Init /\ [][Next]_vars

(***************************************************************************)
(* Properties.                                                             *)
(***************************************************************************)
ExecOps == {"execute", "executeRaw"}
PublicOps ==
    {"execute", "executeRaw", "nodeCount", "edgeCount", "storageStats",
     "export", "import", "clear", "changesSince"}

\* C1: under any interleaving of concurrent create() and
\* ensureWasmInitialized() calls the bootstrap init() has been invoked at
\* most once, and every caller awaits (or awaited) the one memoized promise.
C1_InitInvokedAtMostOnce ==
    /\ initCalls <= 1
    /\ \A c \in Callers :
        caller[c].pc # "idle" =>
            /\ caller[c].awaits = initPromise.id
            /\ initPromise.id = 1
    /\ db.pc # "none" => initPromise.id = 1

C1_Witness ==
    /\ initCalls = 1
    /\ initPromise.st = "pending"
    /\ db.pc = "awaitInit"
    /\ Cardinality({c \in Callers : caller[c].pc = "awaiting"}) >= 2

\* C2: in direct mode with a persistence key, after successful import()
\* calls and execute/executeRaw calls of queries classified as mutating,
\* followed by a close() that resolved, a later create() on the key starts
\* with the engine state as it was when close() was called.
C2_ReopenRestoresStateAtClose ==
    (/\ ev.op = "create"
     /\ ev.res = "ok"
     /\ db.mode = "direct"
     /\ db.persistence # NoKey
     /\ hist.atClose # NoRecord)
    => db.wasm.nodes = hist.atClose

\* C3: with persistence configured, every execute/executeRaw whose query
\* changed the engine state has scheduled a write: the manager is dirty and
\* its timer is armed when the call returns.
C3_StateChangeSchedulesWrite ==
    (/\ ev.op \in ExecOps
     /\ ev.res = "ok"
     /\ db.mode = "direct"
     /\ db.persistence # NoKey
     /\ Mutates[ev.q])
    => /\ pm[db.persistence].dirty
       /\ pm[db.persistence].timer # NoTimer

C5_NoEngineCallOnFreedHandle == ev.uaf = FALSE

\* C6: within one burst of scheduleSave calls (no flush or clear since) the
\* snapshot callback has run at most once and every run made one write;
\* while the timer is armed it has not run, once the timer is gone it has
\* run exactly once, and it never ran before a full interval had passed
\* since the last call.
C6_DebounceOneWritePerBurst ==
    \A k \in Keys :
        burst[k].open =>
            /\ burst[k].snaps <= 1
            /\ burst[k].puts = burst[k].snaps
            /\ pm[k].timer # NoTimer => burst[k].snaps = 0
            /\ pm[k].timer = NoTimer => burst[k].snaps = 1
            /\ burst[k].snaps = 1 => burst[k].since >= PersistInterval

C6_Witness ==
    \E k \in Keys :
        /\ burst[k].open
        /\ burst[k].rearmed
        /\ burst[k].snaps = 1
        /\ burst[k].puts = 1
        /\ pm[k].timer = NoTimer

\* C7: in direct mode with persistence configured, execute/executeRaw of a
\* query that is not classified as mutating leaves the dirty flag, the
\* timer, the requests in flight and the stored records unchanged.
C7_ReadOnlyLeavesPersistenceAlone ==
    [][(/\ ev'.op \in ExecOps
        /\ db.mode = "direct"
        /\ db.persistence # NoKey
        /\ ~Mutating[ev'.q])
        => UNCHANGED <<pm, burst, idb, store>>]_vars

C7_Witness ==
    /\ ev.op \in ExecOps
    /\ ev.res = "ok"
    /\ ~Mutating[ev.q]
    /\ db.mode = "direct"
    /\ db.persistence # NoKey
    /\ pm[db.persistence].dirty
    /\ pm[db.persistence].timer \in 1..(PersistInterval - 1)

\* C8: in worker mode with persistence configured, the handler of an
\* 'execute' or 'executeRaw' request whose query is not classified as
\* mutating leaves the dirty flag, the timer, the requests in flight and the
\* stored records unchanged.
C8_WorkerReadOnlyLeavesPersistenceAlone ==
    [][(/\ ev'.op \in {"worker.execute", "worker.executeRaw"}
        /\ wk.persistence # NoKey
        /\ ~Mutating[ev'.q])
        => UNCHANGED <<pm, burst, idb, store>>]_vars

\* C9: whatever the order in which the replies to outstanding calls are
\* delivered, a call settled by a reply was settled by the reply carrying
\* its own id, with that reply's result or error.
C9_SettledByOwnReply ==
    \A p \in RequestIds :
        settled[p].why = "reply" =>
            /\ settled[p].by = p
            /\ settled[p].val = p
            /\ \E i \in 1..Len(replies) :
                /\ replies[i].id = p
                /\ replies[i].delivered
                /\ replies[i].val = settled[p].val
                /\ replies[i].err <=> settled[p].st = "rejected"

C9_Witness ==
    \E i, j \in 1..Len(replies) :
        /\ i < j
        /\ replies[i].id < replies[j].id
        /\ ~replies[i].delivered
        /\ replies[i].id \in px.pending
        /\ replies[j].delivered
        /\ settled[replies[j].id].st = "resolved"
        /\ settled[replies[j].id].val = replies[j].id

\* C10: a worker fault rejects every request pending at that moment with
\* the fault and leaves the pending map empty.
C10_FaultRejectsAllPending ==
    [][ev'.op = "onerror"
        => /\ px'.pending = {}
           /\ \A p \in px.pending :
                /\ settled'[p].st = "rejected"
                /\ settled'[p].why = "fault"]_vars

C10_Witness ==
    /\ ev.op = "onerror"
    /\ px.pending = {}
    /\ Cardinality({p \in RequestIds : settled[p].why = "fault"}) >= 2

\* C11: a call issued on a proxy right after a worker-level fault fails fast
\* with 'Worker not initialized': it allocates no id, adds no pending entry
\* and posts nothing to the faulted worker.
C11_CallAfterFaultFailsFast ==
    [][(ev.op = "onerror" /\ ev'.op = "proxy.call")
        => /\ ev'.res = "Worker not initialized"
           /\ UNCHANGED proxyVars]_vars

\* C12: a proxy call made while the proxy holds no worker (before init(),
\* or after close() has completed) rejects at once with 'Worker not
\* initialized': no id is allocated, no pending entry is added and no
\* message is posted.
C12_CallWithoutWorkerRejects ==
    [][(px.worker = "null" /\ ev'.op = "proxy.call")
        => /\ ev'.res = "Worker not initialized"
           /\ UNCHANGED proxyVars]_vars

\* A call rejected after a close() whose reply has been delivered.
C12_Witness ==
    /\ ev.op = "proxy.call"
    /\ ev.res = "Worker not initialized"
    /\ px.worker = "null"
    /\ \E p \in RequestIds :
        settled[p].method = "close" /\ settled[p].st = "resolved"

\* C13: in either mode, close() on an instance whose earlier close() has
\* resolved does not raise and changes nothing: no flush or storage write,
\* no release of the engine handle, no 'close' request to the worker and
\* no terminate().
C13_CloseIsIdempotent ==
    [][(db.closed /\ db.closePc = "resolved" /\ ev'.op = "close")
        => /\ ev'.res = "ok"
           /\ UNCHANGED <<idbVars, pmVars, db, proxyVars, workerVars>>]_vars

\* A second close() in worker mode: the first one returned 'sent' and was
\* resolved by the worker's reply, after which the worker was terminated.
C13_Witness ==
    /\ db.mode = "worker"
    /\ db.closed
    /\ db.closePc = "resolved"
    /\ ev.op = "close"
    /\ ev.res = "ok"
    /\ ~wk.alive

\* C14: the lifecycle is one-way.  An instance is open when create()
\* returns it; a call of close() leaves it closed; a closed instance stays
\* closed under every later step (opens counts the instances created, so
\* opens' = opens means the step is on the same instance); and isOpen
\* reads true exactly while the instance is not closed.
C14_LifecycleIsOneWay ==
    [][/\ (db.pc # "ready" /\ db'.pc = "ready") => ~db'.closed
       /\ ev'.op = "close" => db'.closed
       /\ (db.closed /\ opens' = opens) => db'.closed
       /\ ev'.op = "isOpen" => (ev'.res = "true" <=> ~db'.closed)]_vars

\* isOpen read as false while close() is still waiting for its flush or
\* for the worker's reply.
C14_Witness ==
    /\ ev.op = "isOpen"
    /\ ev.res = "false"
    /\ db.closed
    /\ db.closePc \in {"awaitFlush", "awaitReply"}

\* The writes a manager starts by itself (timer callback, flush) that are
\* still awaiting storage.
OwnWritesInFlight(k) ==
    {i \in 1..Len(idb) :
        /\ idb[i].op = "put"
        /\ idb[i].key = k
        /\ idb[i].cont \in {"timer", "pm.flush"}}

\* C15: for one PersistenceManager, at most one write started by a timer
\* fire or a flush is awaiting storage at any time.
C15_OneWriteInFlight ==
    \A k \in Keys : Cardinality(OwnWritesInFlight(k)) <= 1

C17_KeyIsolation ==
    [][\A k \in Keys :
        LoadResult(store'[k]) # LoadResult(store[k])
            => /\ idb # <<>>
               /\ Head(idb).key = k
               /\ Head(idb).op \in {"put", "delete"}
               /\ idb' = Tail(idb)]_vars

\* The clear() of manager "a" has completed after a flush had stored its
\* snapshot; the record saved through manager "b" is still what load()
\* returns for "b".
C17_Witness ==
    /\ ev.op = "pm.cleared"
    /\ ev.q = "a"
    /\ ev.res = "ok"
    /\ burst["a"].puts = 1
    /\ LoadResult(store["a"]) = NoRecord
    /\ LoadResult(store["b"]) = 3
    /\ hist.loaded = [key |-> "b", val |-> 3]

\* C18: round trip.  For every key, what load() returns is null when no
\* save has completed on the key or the last completed write was a clear,
\* and otherwise the bytes of the most recent completed save(); and a
\* load() that has just completed returned exactly that.
C18_LoadReturnsLastSave ==
    /\ \A k \in Keys : LoadResult(store[k]) = saved[k]
    /\ (ev.op = "pm.loaded" /\ ev.res = "ok")
            => hist.loaded = [key |-> ev.q, val |-> saved[ev.q]]

\* load() has returned the bytes of a direct save(), in a run in which a
\* flush or a timer fire has started a write of its own as well.
C18_Witness ==
    /\ ev.op = "pm.loaded"
    /\ ev.res = "ok"
    /\ hist.loaded = [key |-> "a", val |-> 3]
    /\ burst["a"].puts = 1
    /\ idb = <<>>

\* C19: flush() on a manager that is not dirty starts no write and does not
\* call the snapshot callback, whatever happened before.
C19_CleanFlushDoesNothing ==
    [][(ev'.op = "pm.flush" /\ ~pm[ev'.q].dirty)
        => /\ ev'.res = "clean"
           /\ UNCHANGED <<idb, store, burst>>
           /\ ~pm'[ev'.q].dirty]_vars

\* A clean flush after the write of an earlier flush or timer fire has
\* completed and stored the snapshot.
C19_Witness ==
    /\ ev.op = "pm.flush"
    /\ ev.res = "clean"
    /\ burst["a"].puts = 1
    /\ idb = <<>>
    /\ saved["a"] = TestBytes["a"]

\* C20: flush() on a dirty manager cancels the timer, calls the snapshot
\* callback once and starts one write of that snapshot; and between two
\* calls of scheduleSave the callback is called at most once and at most
\* one write is started, by the flush or by a timer fire.
C20_DirtyFlushWritesOnce ==
    [][/\ (ev'.op = "pm.flush" /\ pm[ev'.q].dirty)
            => LET k == ev'.q
               IN  /\ pm'[k].timer = NoTimer
                   /\ ~pm'[k].dirty
                   /\ burst'[k].snaps = burst[k].snaps + 1
                   /\ idb' = Enqueued(idb, Request("put", k, TestBytes[k], "pm.flush", 0))
       /\ \A k \in Keys : burst'[k].snaps <= 1 /\ burst'[k].puts <= 1]_vars

\* The one write of a dirty period was started by a flush and has
\* completed; the debounce interval has passed since scheduleSave and no
\* timer is armed.
C20_Witness ==
    /\ burst["a"].puts = 1
    /\ burst["a"].snaps = 1
    /\ ~burst["a"].open
    /\ burst["a"].since = PersistInterval
    /\ pm["a"].timer = NoTimer
    /\ ~pm["a"].dirty
    /\ ev.op = "pm.flushed"
    /\ ev.res = "ok"

DirectExecute(q, e, persists) ==
    IF e.st # "live" \/ ~Accepts[q]
    THEN [err |-> TRUE, engine |-> e, schedules |-> FALSE]
    ELSE [err |-> FALSE,
          engine |-> [e EXCEPT !.nodes = IF Mutates[q] THEN @ + 1 ELSE @],
          schedules |-> persists /\ Mutating[q]]

\* What import(snapshot) of a direct-mode GrafeoDB does on engine e:
\* this.wasm.importSnapshot(snapshot.data) on the same handle, then
\* scheduleSave if (this.persistence).
DirectImport(s, e, persists) ==
    IF e.st # "live" \/ s = BadSnapshot
    THEN [err |-> TRUE, engine |-> e, schedules |-> FALSE]
    ELSE [err |-> FALSE, engine |-> [e EXCEPT !.nodes = s], schedules |-> persists]

\* The step answers and leaves the worker's engine and manager as outcome o
\* of direct mode says.
SameAsDirect(o) ==
    /\ ev'.res = "error" <=> o.err
    /\ wk'.db = o.engine
    /\ IF o.schedules
       THEN /\ pm'[wk.persistence].dirty
            /\ pm'[wk.persistence].timer = PersistInterval
       ELSE UNCHANGED <<pm, burst>>

\* C22: worker mode does what direct mode does.  Each 'execute',
\* 'executeRaw' and 'import' request handled by the worker is answered with
\* an error exactly when direct mode would raise one on the same engine
\* state, leaves the engine in the state direct mode would leave it in, and
\* schedules a persistence write exactly when direct mode would.
C22_WorkerDoesWhatDirectDoes ==
    [][/\ ev'.op \in {"worker.execute", "worker.executeRaw"}
            => SameAsDirect(DirectExecute(Head(toWorker).arg.q, wk.db,
                                          wk.persistence # NoKey))
       /\ ev'.op = "worker.import"
            => SameAsDirect(DirectImport(Head(toWorker).arg.n, wk.db,
                                         wk.persistence # NoKey))]_vars

\* C23: a request that has been resolved or rejected is never settled
\* again: no duplicate reply, no reply delivered after a fault rejected the
\* request and no fault after its reply changes its outcome or its value.
C23_SettledAtMostOnce ==
    [][\A p \in RequestIds :
        settled[p].st \in {"resolved", "rejected"} => settled'[p] = settled[p]]_vars

\* A second reply to a resolved request, carrying an error, has been
\* delivered and ignored, and so has the late reply to a request that a
\* fault had rejected.
C23_Witness ==
    /\ ev.op = "onmessage"
    /\ ev.res = "ignored"
    /\ \E i, j \in 1..Len(replies) :
        /\ i < j
        /\ replies[i].id = replies[j].id
        /\ replies[i].delivered
        /\ replies[j].delivered
        /\ replies[j].err
        /\ settled[replies[i].id].st = "resolved"
    /\ \E i \in 1..Len(replies) :
        /\ replies[i].delivered
        /\ settled[replies[i].id].why = "fault"

\* C24: a request that is still unsettled is still in the proxy's pending
\* map.  Only an entry of the map is ever resolved (onmessage) or rejected
\* (onerror), so a request that has left the map unsettled is never
\* settled: the claim that every request is eventually settled, calls
\* outstanding at close() included, requires this in every state.
C24_UnsettledStaysPending ==
    \A p \in RequestIds : settled[p].st = "pending" => p \in px.pending

\* C25: when the bootstrap fails, the memoized promise is rejected, and
\* while it is rejected no caller of ensureWasmInitialized() has resumed
\* as initialized, no create() has gone past its await, and every caller
\* and create() that resumes does so with the error.
C25_BootstrapFailureReachesEveryCaller ==
    [][/\ (ev'.op = "initSettle" /\ ev'.res = "error")
            => initPromise'.st = "rejected"
       /\ initPromise'.st = "rejected"
            => /\ \A c \in Callers : caller'[c].pc # "ready"
               /\ db'.pc \in {"none", "awaitInit", "createFailed"}
               /\ ev'.op \in {"ensureWasmInitialized", "create"}
                    => ev'.res \in {"pending", "error"}]_vars

\* The bootstrap has failed with two callers and a create() awaiting it,
\* and all three have been rejected.
C25_Witness ==
    /\ initPromise.st = "rejected"
    /\ db.pc = "createFailed"
    /\ Cardinality({c \in Callers : caller[c].pc = "rejected"}) >= 2

\* C26: after a failed bootstrap, a later ensureWasmInitialized() or
\* create() call starts a new init() invocation.
C26_RetryAfterFailure ==
    [][(/\ initPromise.st = "rejected"
        /\ ev'.op \in {"ensureWasmInitialized", "create"}
        /\ ev'.res = "pending")
        => initCalls' = initCalls + 1]_vars

\* The text without its leading whitespace.
RECURSIVE DropLeadingWhitespace(_)
DropLeadingWhitespace(q) ==
    IF q # <<>> /\ Head(q) \in Whitespace
    THEN DropLeadingWhitespace(Tail(q))
    ELSE q

\* The word the text starts with, in upper case: its letters, digits and
\* underscores up to the first other character.
RECURSIVE LeadingWord(_)
LeadingWord(q) ==
    IF q # <<>> /\ Head(q) \in WordChars
    THEN <<Upper(Head(q))>> \o LeadingWord(Tail(q))
    ELSE <<>>

\* C27: isMutatingQuery(q) answers true exactly when the first word of q
\* after its leading whitespace is, whatever its case and as a whole
\* word, one of INSERT, CREATE, DELETE, REMOVE, SET, MERGE, DROP, and
\* false for every other text; the call changes nothing else.
C27_ClassifierByFirstKeyword ==
    [][ev'.op = "isMutatingQuery"
        => /\ ev'.res = "true"
                <=> LeadingWord(DropLeadingWhitespace(ev.q)) \in MutatingKeywords
           /\ ev'.res \in {"true", "false"}
           /\ ev'.q = ev.q
           /\ UNCHANGED <<initVars, idbVars, pmVars, db, opens, proxyVars,
                          workerVars, burst, hist, hook>>]_vars

\* A text with leading whitespace, a keyword in mixed case and a
\* following character that ends the word has been classified as mutating.
C27_Witness ==
    /\ ev.op = "isMutatingQuery"
    /\ ev.res = "true"
    /\ ev.q = <<"\n", "\t", "d", "R", "o", "P", ";">>

\* C28: a query the engine rejects fails that call alone.  In direct mode
\* the call ends with the engine's error and nothing else changes; in
\* Worker mode the handler posts an error response under the request's
\* id and the proxy rejects that request and no other.  No write is
\* scheduled or started, and the instance is still open, with its engine
\* or its worker, for later calls.
C28_RejectedQueryFailsAlone ==
    [][/\ (ev'.op \in ExecOps /\ ev'.res = "engineError")
            => /\ UNCHANGED <<pm, burst, idb, store, db, settled>>
               /\ db'.pc = "ready" /\ ~db'.closed /\ db'.wasm.st = "live"
       /\ (ev'.op \in {"worker.execute", "worker.executeRaw"} /\ ev'.res = "error")
            => /\ UNCHANGED <<pm, burst, idb, store, db, wk, settled>>
               /\ Len(replies') = Len(replies) + 1
               /\ replies'[Len(replies')].id = Head(toWorker).id
               /\ replies'[Len(replies')].err
       /\ (ev'.op = "onmessage" /\ ev'.res = "rejected")
            => \E p \in RequestIds :
                /\ settled[p].st = "pending"
                /\ settled'[p].st = "rejected"
                /\ settled'[p].why = "reply"
                /\ settled'[p].by = p
                /\ \A o \in RequestIds \ {p} : settled'[o] = settled[o]
                /\ settled[p].method \in ExecOps
                    => /\ UNCHANGED <<pm, burst, idb, store, db, wk>>
                       /\ px'.worker = "live"
                       /\ db'.pc = "ready" /\ ~db'.closed /\ db'.proxy]_vars

\* In Worker mode with persistence, execute() was rejected by the engine's
\* error response and the next execute() on the same instance resolved.
C28_Witness ==
    /\ db.pc = "ready" /\ db.proxy /\ wk.persistence = "a"
    /\ settled[2].method = "execute" /\ settled[2].st = "rejected"
    /\ settled[2].why = "reply"
    /\ settled[3].method = "execute" /\ settled[3].st = "resolved"
    /\ pm["a"].dirty

\* The instance was produced, or may still be, and close() has not been
\* called on it.
NotYetClosed(i) == hook.inst[i] \in {"creating", "open"}

\* C29: React useGrafeo: once the component has unmounted, every instance
\* its create() calls produce is eventually closed, whether creation had
\* resolved before the unmount or was still in progress.
C29_ReactInstancesClosedAfterUnmount ==
    \A i \in Instances :
        (hook.fw = "react" /\ hook.phase = "unmounted" /\ NotYetClosed(i))
            ~> ~NotYetClosed(i)

\* C30: Vue useGrafeo: once the component has unmounted, every instance
\* its create() call produces is eventually closed, whether creation had
\* resolved before the unmount or was still in progress.
C30_VueInstancesClosedAfterUnmount ==
    \A i \in Instances :
        (hook.fw = "vue" /\ hook.phase = "unmounted" /\ NotYetClosed(i))
            ~> ~NotYetClosed(i)

\* C31: Svelte createGrafeo: once the last subscriber of the db store has
\* left, and for as long as nobody subscribes again, the instance is
\* eventually closed, also when the subscriber left while create() was
\* still pending.
C31_SvelteClosedAfterLastSubscriber ==
    (hook.fw = "svelte" /\ hook.left /\ hook.subs = 0 /\ NotYetClosed(1))
        ~> (hook.subs > 0 \/ ~NotYetClosed(1))

\* C32: every request a WorkerProxy sends carries the value of its counter,
\* which then grows by one and never shrinks: the id was not issued
\* before, it is larger than every id issued before, and it is 1 exactly
\* for the init handshake; a worker fault changes none of this.
C32_RequestIdsIncrease ==
    [][/\ px'.nextId >= px.nextId
       /\ ev'.res = "sent"
            => LET m == toWorker'[Len(toWorker')]
               IN  /\ Len(toWorker') > 0
                   /\ m.id = px.nextId
                   /\ px'.nextId = m.id + 1
                   /\ settled[m.id].st = "none"
                   /\ \A q \in RequestIds : settled[q].st # "none" => q < m.id
                   /\ m.id = 1 <=> m.method = "init"]_vars

\* A request was rejected by a worker fault, which cleared the pending
\* map, and the request just sent has a larger id.
C32_Witness ==
    /\ ev.res = "sent"
    /\ \E p, q \in RequestIds :
        /\ p < q
        /\ settled[p].why = "fault"
        /\ settled[q].st = "pending"
        /\ px.pending = {q}

\* The instance is Open: create() has returned it and close() has not been
\* called on it.
Open == db.pc = "ready" /\ ~db.closed

\* Direct: engine handle present, transport absent.
DirectMode ==
    /\ db.mode = "direct" /\ db.wasm.st # "null" /\ ~db.proxy /\ db.live = 1

\* Remote: transport present, engine handle and persistence manager absent.
RemoteMode ==
    /\ db.mode = "worker" /\ db.proxy /\ db.wasm.st = "null"
    /\ db.persistence = NoKey /\ db.live = 0

\* C33: an Open orchestrator is in exactly one of the two modes, Direct
\* (engine handle present, no transport) or Remote (transport present, no
\* engine handle and no persistence manager); no operation on it switches
\* the mode; and it has at most one live engine handle at any time, also
\* after clear() and import().
C33_OneModeOneHandle ==
    [][/\ Open' => /\ DirectMode' \/ RemoteMode'
                   /\ ~(DirectMode' /\ RemoteMode')
                   /\ db'.live <= 1
       /\ (Open /\ Open' /\ opens' = opens)
            => /\ DirectMode' <=> DirectMode
               /\ RemoteMode' <=> RemoteMode]_vars

C33_Witness ==
    /\ Open /\ DirectMode /\ db.persistence # NoKey
    /\ ev.op = "clear" /\ ev.res \in {"ok", "pending"}


\* C34: in WorkerProxy.close() the worker is terminated and the proxy's
\* references (worker, pending map) are cleared only in the step that
\* delivers the reply to the 'close' request; while a 'close' request is
\* pending the worker has not been terminated by the proxy.
C34_TerminateAfterCloseReply ==
    [][/\ (px.worker = "live" /\ px'.worker # "live") \/ (wk.alive /\ ~wk'.alive)
            => \E c \in px.pending :
                    /\ settled[c].method = "close" /\ settled[c].st = "pending"
                    /\ settled'[c].st = "resolved" /\ settled'[c].why = "reply"
                    /\ ev'.op = "onmessage"
                    /\ px'.worker = "null" /\ px'.pending = {} /\ ~wk'.alive
       /\ (\E c \in RequestIds : settled'[c].method = "close" /\ settled'[c].st = "pending")
            => px'.worker = "live" /\ wk'.alive]_vars

C34_Witness ==
    /\ px.worker = "null" /\ ~wk.alive /\ ev.op = "onmessage"
    /\ \E c, q \in RequestIds :
            /\ settled[c].method = "close" /\ settled[c].st = "resolved"
            /\ q < c /\ settled[q].st = "pending"


\* The worker has taken request id off its message queue.
Received(id) ==
    /\ id < px.nextId
    /\ \A i \in 1..Len(toWorker) : toWorker[i].id # id

\* The handler of request id is suspended at an await.
InHandler(id) ==
    \/ id \in wtasks
    \/ \E i \in 1..Len(idb) : idb[i].cont \in WorkerConts /\ idb[i].id = id

\* The responses posted for request id.
Responses(id) == {i \in 1..Len(replies) : replies[i].id = id}

\* C35: the worker posts at most one response per request id, none before
\* it has received the request or while the handler is suspended, and
\* exactly one once the handler has run to its end, whether it returned, threw
\* or met an unknown method; a response of a handler that threw or of an
\* unknown method is an error, and every response bears the id of a
\* received request.
C35_OneResponsePerRequest ==
    \A id \in RequestIds :
        /\ Cardinality(Responses(id)) <= 1
        /\ Responses(id) # {} => Received(id) /\ ~InHandler(id)
        /\ (wk.alive /\ Received(id) /\ ~InHandler(id)) => Cardinality(Responses(id)) = 1
        /\ (Responses(id) # {} /\ settled[id].method = "bogus")
                => \A i \in Responses(id) : replies[i].err

C35_Witness ==
    /\ wk.alive
    /\ \E a, b \in RequestIds :
            /\ settled[a].method = "bogus" /\ Responses(a) # {}
            /\ settled[b].method = "execute" /\ Responses(b) # {}
            /\ \A i \in Responses(a) \cup Responses(b) : replies[i].err


\* A write the manager of key k started from scheduleSave or flush is in
\* flight.
WriteInFlight(k) ==
    \E i \in 1..Len(idb) :
        idb[i].key = k /\ idb[i].op = "put" /\ idb[i].cont \in {"timer", "pm.flush"}

\* A snapshot taken since the last scheduleSave call has been written: a put
\* was made since that call and no put of the manager is still in flight.
SavedSinceLastCall(k) == burst[k].puts >= 1 /\ ~WriteInFlight(k)

\* C36: if scheduleSave calls eventually stop, then every scheduleSave
\* call, one made while the write of an earlier timer callback is in flight
\* included, is eventually followed by the completed write of a snapshot
\* taken at or after the call (storage does not fail, clear() is not
\* called).
C36_NoScheduledSaveLost ==
    (<>[][~PmScheduleSave("a")]_vars)
        => ((ev.op = "pm.scheduleSave") ~> SavedSinceLastCall("a"))

C36_Witness ==
    /\ ev.op = "pm.scheduleSave"
    /\ \E i \in 1..Len(idb) : idb[i].key = "a" /\ idb[i].cont = "timer"


\* close() of the instance has settled, one way or the other.
CloseSettled == db.closePc \in {"resolved", "rejected"}

\* The instance holds no live resource: no engine handle that was created
\* and not freed in Direct mode, no running worker in Remote mode.
NothingHeld ==
    IF db.mode = "worker" THEN ~wk.alive
    ELSE db.wasm.st = "null" /\ db.live = 0

\* C37: once close() has settled, resolved or rejected, the orchestrator
\* holds no live resource: the engine handle has been released in Direct
\* mode, the worker has been terminated in Remote mode, also when the write
\* of the final flush failed.
C37_SettledCloseHoldsNothing == CloseSettled => NothingHeld

\* C38: whenever a close() call has resolved, the first one or one made
\* while the first is still awaiting its flush or its worker reply, the
\* final flush has completed and the engine handle has been released (or
\* the worker terminated).
C38_ResolvedCloseHasReleased ==
    (ev.op = "close" /\ ev.res = "ok")
        => /\ db.closePc = "resolved"
           /\ NothingHeld
           /\ \A i \in 1..Len(idb) : idb[i].cont \notin {"close", "wclose"}


\* The manager of key k exists and is quiescent: no timer armed, not dirty,
\* no write of its key in flight.
Quiescent(k) ==
    /\ pm[k].owner # "none"
    /\ pm[k].timer = NoTimer
    /\ ~pm[k].dirty
    /\ \A i \in 1..Len(idb) : ~(idb[i].key = k /\ idb[i].op = "put")

\* C39: whenever a PersistenceManager is quiescent after it has taken one
\* or more snapshots whose saves succeeded, and clear() was not called, the
\* persisted record holds the most recently taken snapshot: the write of an
\* older snapshot has not landed on top of the write of a newer one.
C39_PersistedIsLatestSnapshot ==
    \A k \in Keys :
        (Quiescent(k) /\ burst[k].last # NoRecord)
            => /\ store[k] = <<SnapshotRecord(k, burst[k].last)>>
               /\ saved[k] = burst[k].last

C39_Witness ==
    /\ Quiescent("a") /\ burst["a"].last = 0 /\ db.wasm.st = "live"
    /\ ev.op = "timerSave"
    /\ store["a"] = <<SnapshotRecord("a", 0)>>


\* C40: an import() of a snapshot the engine rejects fails and leaves the
\* orchestrator (direct mode) or the worker with the live engine handle and
\* the state it had before the call, and schedules no persistence write.
C40_RejectedImportLeavesEngine ==
    [][/\ (ev'.op = "import" /\ ev'.res = "engineError" /\ db.wasm.st = "live")
            => db'.wasm = db.wasm /\ pm' = pm /\ idb' = idb
       /\ (ev'.op = "worker.import" /\ ev'.res = "error" /\ wk.db.st = "live")
            => wk'.db = wk.db /\ pm' = pm /\ idb' = idb]_vars


=============================================================================
